---- MODULE Spec2Model ----
(***************************************************************************)
(* Booking & revenue ledger of the FC Inkiwanjani backend.                  *)
(*                                                                          *)
(* The relational store (matches, bookings, settings) is the shared state;  *)
(* every HTTP handler and model method runs as a sequence of steps, one per *)
(* awaited storage call, so that concurrent requests interleave exactly at  *)
(* the points where the JavaScript code awaits.                             *)
(***************************************************************************)
EXTENDS Integers, Sequences, FiniteSets, TLC

(***************************************************************************)
(* Bounds of the model.                                                     *)
(***************************************************************************)
NProcs == 2        \* concurrent POST /bookings requests
NRefs == 2         \* size of the space generateReference() draws from
InitMatches == 1   \* rows of the matches table after setup
NCfg == 2          \* concurrent Settings.setMultiple callers
NRev == 2          \* revenue requests of a run

Procs == 1..NProcs
Refs == 1..NRefs
CfgProcs == 1..NCfg
RevProcs == 1..NRev

(***************************************************************************)
(* Optional values: null / NaN is the empty sequence, a number n is <<n>>.  *)
(***************************************************************************)
None == <<>>
Some(n) == <<n>>
IsSome(o) == Len(o) = 1
Val(o) == o[1]

(***************************************************************************)
(* Text <-> number conversions.  Request fields and setting values are      *)
(* text; IntLit is the decimal reading of the numerals the model uses, any  *)
(* other text ("", "abc", "gold", ...) does not parse.                      *)
(***************************************************************************)
Numerals ==
  {"-1", "0", "1", "2", "3", "5", "10", "12", "13", "20", "50", "51", "1969", "1970",
   "1999", "2000", "2100", "2101", "3000", "3001", "1000001"}

IntLit(s) ==
  CASE s = "-1" -> 0 - 1
    [] s = "0" -> 0
    [] s = "1" -> 1
    [] s = "2" -> 2
    [] s = "3" -> 3
    [] s = "5" -> 5
    [] s = "10" -> 10
    [] s = "20" -> 20
    [] s = "50" -> 50
    [] s = "51" -> 51
    [] s = "12" -> 12
    [] s = "13" -> 13
    [] s = "1969" -> 1969
    [] s = "1970" -> 1970
    [] s = "1999" -> 1999
    [] s = "2000" -> 2000
    [] s = "2100" -> 2100
    [] s = "2101" -> 2101
    [] s = "3000" -> 3000
    [] s = "3001" -> 3001
    [] s = "1000001" -> 1000001

\* Number.parseInt(String(value), 10), null when not finite
toInt(value) == IF value \in Numerals THEN Some(IntLit(value)) ELSE None

\* String(n) for the integers the model writes back as text
String(n) == CHOOSE s \in Numerals : IntLit(s) = n

\* Number.parseFloat(String(value)) of a number that is already an integer
toFloat(n) == Some(n)

\* typeof v === 'string' ? v.trim() : v   (inputs of the model carry no
\* surrounding blanks)
safeTrim(v) == v

\* /^[^\s@]+@[^\s@]+\.[^\s@]+$/ over the addresses of the model
isValidEmail(e) == e \in {"a@x.io", "b@x.io", "A@x.io", "a@X.IO", "B@x.io"}

toLowerCaseNot(e) == e

toLowerCase(e) ==
  CASE e \in {"A@x.io", "a@X.IO"} -> "a@x.io"
    [] e = "B@x.io" -> "b@x.io"
    [] OTHER -> e

TICKET_TYPES == {"vip", "regular", "student"}
PAYMENT_STATUSES == {"pending", "paid", "cancelled"}
MinQuantity == 1
MaxQuantity == 50

PriceKey(type) ==
  CASE type = "vip" -> "ticket_price_vip"
    [] type = "regular" -> "ticket_price_regular"
    [] type = "student" -> "ticket_price_student"

TicketKeys == {"ticket_price_vip", "ticket_price_regular", "ticket_price_student"}

(***************************************************************************)
(* State.                                                                   *)
(*   matches, bookings, settings, nextId : the tables of schema.sql         *)
(*   pc .. resp   : one POST /bookings request per process                  *)
(*   revenue, revNextId : table revenue of schema.sql                       *)
(***************************************************************************)
VARIABLES
  matches,      \* ids of the rows of table matches
  bookings,     \* rows of table bookings
  settings,     \* table settings: setting_key -> setting_value
  nextId,       \* AUTO_INCREMENT counter of bookings.id
  pc,           \* position of each booking request in its handler
  req,          \* req.body of each booking request
  total,        \* total_amount computed by the handler
  seen,         \* setting_value rows returned to the handler by getByKeys
  attempt,      \* local `attempt` of Booking.create
  reference,    \* local `booking_reference` of Booking.create
  resp,         \* HTTP response of each booking request
  last,         \* outcome of the latest Booking status / delete call
  cpc,          \* position of each ticket-price update in its call
  cin,          \* the prices each ticket-price update was called with
  cidx,         \* index of the next entry setMultiple upserts
  cwrites,      \* uncommitted writes of each setMultiple transaction
  cconn,        \* how many pooled connections each setMultiple call holds
  cres,         \* response / result of each ticket-price update
  revenue,      \* rows of table revenue
  revNextId,    \* AUTO_INCREMENT counter of revenue.id
  rin,          \* the data each revenue request was called with
  rres,         \* response / result of each revenue request
  dpc,          \* position of the dashboard request in its handler
  dsub,         \* state of each sub-call of the dashboard request
  dresp,        \* HTTP response of the dashboard request
  rep,          \* outcome of the latest revenue report call
  areq,         \* what the admin router's middleware made of the latest request
  lk            \* outcome of the latest booking lookup by email

procVars == <<pc, req, total, seen, attempt, reference, resp>>
cfgVars == <<cpc, cin, cidx, cwrites, cconn, cres>>
revVars == <<revenue, revNextId, rin, rres>>
dashVars == <<dpc, dsub, dresp>>
adminVars == <<revVars, dashVars, rep, areq, lk>>
vars == <<matches, bookings, settings, nextId, procVars, last, cfgVars, adminVars>>

NoBody ==
  [match_id |-> "", customer_name |-> "", customer_email |-> "",
   customer_phone |-> "", ticket_type |-> "", quantity |-> "", total_amount |-> ""]

NoResp == [status |-> 0, message |-> "", id |-> 0, error |-> ""]

\* sendError(res, status, message)
Reply(status, message) == [status |-> status, message |-> message, id |-> 0, error |-> ""]

\* the handler's catch: the error is logged, the client gets a plain 500
Thrown(error) ==
  [status |-> 500, message |-> "Failed to create booking", id |-> 0, error |-> error]

(***************************************************************************)
(* Settings model (backend/src/models/Settings.js).                         *)
(***************************************************************************)
\* Settings._toInt: Number.parseInt(value, 10), fallback when not finite;
\* `row` is the optional setting_value (None when the key has no row)
Settings_toInt(row, fallback) ==
  IF IsSome(row) /\ Val(row) \in Numerals THEN IntLit(Val(row)) ELSE fallback

\* Settings.getByKeys: one SELECT ... WHERE setting_key IN (...)
getByKeys(store, keys) == [k \in (keys \cap DOMAIN store) |-> store[k]]

Lookup(s, k) == IF k \in DOMAIN s THEN Some(s[k]) ELSE None

\* Settings.getTicketPrices
getTicketPrices(store) ==
  LET s == getByKeys(store, TicketKeys)
  IN [vip |-> Settings_toInt(Lookup(s, "ticket_price_vip"), 0),
      regular |-> Settings_toInt(Lookup(s, "ticket_price_regular"), 0),
      student |-> Settings_toInt(Lookup(s, "ticket_price_student"), 0)]

\* faulty variant: every ticket type is priced at the vip price
PriceOfVipOnly(prices, type) == prices.vip

PriceOf(prices, type) ==
  CASE type = "vip" -> prices.vip
    [] type = "regular" -> prices.regular
    [] type = "student" -> prices.student

(***************************************************************************)
(* POST /bookings (backend/src/routes/publicRoutes.js) and Booking.create   *)
(* (backend/src/models/Booking.js).                                         *)
(***************************************************************************)
\* faulty variant: a request is only rejected for missing fields
ValidateBookingFieldsOnly(body) ==
  IF \/ toInt(body.match_id) = None
     \/ body.customer_name = ""
     \/ body.customer_email = ""
     \/ body.customer_phone = ""
     \/ body.ticket_type = ""
     \/ toInt(body.quantity) = None
  THEN "All fields are required"
  ELSE ""

\* faulty variant: the quantity is checked before the ticket type
ValidateBookingQuantityFirst(body) ==
  LET match_id == toInt(body.match_id)
      customer_email == toLowerCase(safeTrim(body.customer_email))
      ticket_type == safeTrim(body.ticket_type)
      quantity == toInt(body.quantity)
  IN IF \/ match_id = None
        \/ safeTrim(body.customer_name) = ""
        \/ customer_email = ""
        \/ safeTrim(body.customer_phone) = ""
        \/ ticket_type = ""
        \/ quantity = None
     THEN "All fields are required"
     ELSE IF ~isValidEmail(customer_email) THEN "Invalid customer_email"
     ELSE IF Val(quantity) < MinQuantity \/ Val(quantity) > MaxQuantity
          THEN "Quantity must be between 1 and 50"
     ELSE IF ticket_type \notin TICKET_TYPES THEN "Invalid ticket_type"
     ELSE ""

\* the synchronous checks of the handler; "" when the request passes
ValidateBooking(body) ==
  LET match_id == toInt(body.match_id)
      customer_name == safeTrim(body.customer_name)
      customer_email == toLowerCase(safeTrim(body.customer_email))
      customer_phone == safeTrim(body.customer_phone)
      ticket_type == safeTrim(body.ticket_type)
      quantity == toInt(body.quantity)
  IN IF \/ match_id = None
        \/ customer_name = ""
        \/ customer_email = ""
        \/ customer_phone = ""
        \/ ticket_type = ""
        \/ quantity = None
     THEN "All fields are required"
     ELSE IF ~isValidEmail(customer_email) THEN "Invalid customer_email"
     ELSE IF ticket_type \notin TICKET_TYPES THEN "Invalid ticket_type"
     ELSE IF Val(quantity) < MinQuantity \/ Val(quantity) > MaxQuantity
          THEN "Quantity must be between 1 and 50"
     ELSE ""

\* Match.getById: null for a falsy id, else the row if there is one
Match_getById(id) == id # 0 /\ id \in matches

\* Booking._matchExists
Booking_matchExists(id) == id \in matches

\* the argument checks at the head of Booking.create; "" when they pass
BookingCreateCheck(match_id, name, email, phone, type, quantity) ==
  IF match_id = 0 \/ name = "" \/ email = "" \/ phone = "" \/ type = "" \/ quantity = 0
  THEN "All fields are required"
  ELSE IF type \notin TICKET_TYPES THEN "Invalid ticket type"
  ELSE IF quantity <= 0 \/ quantity > MaxQuantity THEN "Invalid quantity"
  ELSE ""

\* Booking._roundMoney of an integer amount
Booking_roundMoney(value) == value

UsedRefs == {b.booking_reference : b \in bookings}

\* request received: run the synchronous validation of the handler
Receive(p, body) ==
  /\ pc[p] = "idle"
  /\ req' = [req EXCEPT ![p] = body]
  /\ LET v == ValidateBooking(body)
     IN IF v # ""
        THEN /\ pc' = [pc EXCEPT ![p] = "done"]
             /\ resp' = [resp EXCEPT ![p] = Reply(400, v)]
        ELSE /\ pc' = [pc EXCEPT ![p] = "matchLookup"]
             /\ resp' = resp
  /\ UNCHANGED <<matches, bookings, settings, nextId, total, seen, attempt, reference, last, cfgVars, adminVars>>

\* await Match.getById(match_id)
MatchLookup(p) ==
  /\ pc[p] = "matchLookup"
  /\ IF ~Match_getById(Val(toInt(req[p].match_id)))
     THEN /\ pc' = [pc EXCEPT ![p] = "done"]
          /\ resp' = [resp EXCEPT ![p] = Reply(404, "Match not found")]
     ELSE /\ pc' = [pc EXCEPT ![p] = "readPrices"]
          /\ resp' = resp
  /\ UNCHANGED <<matches, bookings, settings, nextId, req, total, seen, attempt, reference, last, cfgVars, adminVars>>

\* await Settings.getTicketPrices(), price the booking, enter Booking.create
ReadPrices(p) ==
  /\ pc[p] = "readPrices"
  /\ LET prices == getTicketPrices(settings)
         type == safeTrim(req[p].ticket_type)
         unitPrice == toFloat(PriceOf(prices, type))
         quantity == Val(toInt(req[p].quantity))
         chk == BookingCreateCheck(Val(toInt(req[p].match_id)), req[p].customer_name,
                                   toLowerCase(req[p].customer_email),
                                   req[p].customer_phone, type, quantity)
     IN /\ seen' = [seen EXCEPT ![p] = Lookup(settings, PriceKey(type))]
        /\ IF unitPrice = None
           THEN /\ pc' = [pc EXCEPT ![p] = "done"]
                /\ resp' = [resp EXCEPT ![p] = Reply(500, "Ticket pricing misconfigured on server")]
                /\ total' = total
           ELSE /\ total' = [total EXCEPT ![p] = Val(unitPrice) * quantity]
                /\ IF chk # ""
                   THEN /\ pc' = [pc EXCEPT ![p] = "done"]
                        /\ resp' = [resp EXCEPT ![p] = Thrown(chk)]
                   ELSE /\ pc' = [pc EXCEPT ![p] = "matchExists"]
                        /\ resp' = resp
  /\ UNCHANGED <<matches, bookings, settings, nextId, req, attempt, reference, last, cfgVars, adminVars>>

\* await this._matchExists(match_id), then the money validation
MatchExists(p) ==
  /\ pc[p] = "matchExists"
  /\ IF ~Booking_matchExists(Val(toInt(req[p].match_id)))
     THEN /\ pc' = [pc EXCEPT ![p] = "done"]
          /\ resp' = [resp EXCEPT ![p] = Thrown("Match not found")]
     ELSE IF total[p] < 0
     THEN /\ pc' = [pc EXCEPT ![p] = "done"]
          /\ resp' = [resp EXCEPT ![p] = Thrown("Invalid total amount")]
     ELSE /\ pc' = [pc EXCEPT ![p] = "insert"]
          /\ resp' = resp
  /\ UNCHANGED <<matches, bookings, settings, nextId, req, total, seen, attempt, reference, last, cfgVars, adminVars>>

\* faulty variant: the retry loop runs once more
MaxAttemptsSix == 5 + 1

MaxAttempts == 5

\* faulty variant: a booking starts unpaid
InitialStatusPending == "pending"

\* const payment_status = 'paid'
InitialStatus == "paid"

\* the row Booking.create inserts for request p under reference ref
NewRow(p, ref) ==
  [id |-> nextId,
   match_id |-> Val(toInt(req[p].match_id)),
   customer_name |-> safeTrim(req[p].customer_name),
   customer_email |-> toLowerCase(safeTrim(req[p].customer_email)),
   customer_phone |-> safeTrim(req[p].customer_phone),
   ticket_type |-> safeTrim(req[p].ticket_type),
   quantity |-> Val(toInt(req[p].quantity)),
   total_amount |-> Booking_roundMoney(total[p]),
   booking_reference |-> ref,
   payment_status |-> InitialStatus]

\* faulty variant: the column carries no UNIQUE constraint
DupReferenceNever(ref) == FALSE

\* UNIQUE(booking_reference): the insert raises ER_DUP_ENTRY on that key
DupReference(ref) == ref \in UsedRefs

\* faulty variant: the column carries no FOREIGN KEY
FkViolationNever(match_id) == FALSE

\* FOREIGN KEY (match_id) REFERENCES matches(id): the insert is refused
FkViolation(match_id) == match_id \notin matches

\* what the storage engine can answer to the INSERT
InsertOutcomes(p, ref) ==
  LET dup == DupReference(ref)
      fk == FkViolation(Val(toInt(req[p].match_id)))
  IN {"fault"} \cup (IF dup THEN {"dup"} ELSE {}) \cup (IF fk THEN {"fk"} ELSE {})
       \cup (IF ~dup /\ ~fk THEN {"ok"} ELSE {})

\* faulty variant: every failed insert is tried again
RetryableAny(outcome) == outcome # "ok"

\* faulty variant: no failed insert is tried again
RetryableNever(outcome) == FALSE

\* error.code === 'ER_DUP_ENTRY' && message.includes('booking_reference')
Retryable(outcome) == outcome = "dup"

\* one turn of the retry loop of Booking.create: generate a reference and
\* await the INSERT
InsertAttempt(p, ref, outcome) ==
  /\ pc[p] = "insert"
  /\ attempt[p] < MaxAttempts
  /\ outcome \in InsertOutcomes(p, ref)
  /\ attempt' = [attempt EXCEPT ![p] = attempt[p] + 1]
  /\ reference' = [reference EXCEPT ![p] = ref]
  /\ CASE outcome = "ok" ->
            /\ bookings' = bookings \cup {NewRow(p, ref)}
            /\ nextId' = nextId + 1
            /\ pc' = [pc EXCEPT ![p] = "done"]
            /\ resp' = [resp EXCEPT ![p] =
                 [status |-> 201, message |-> "Booking created successfully",
                  id |-> nextId, error |-> ""]]
       [] outcome # "ok" /\ Retryable(outcome) ->
            /\ UNCHANGED <<bookings, nextId>>
            /\ IF attempt[p] + 1 < MaxAttempts
               THEN UNCHANGED <<pc, resp>>
               ELSE /\ pc' = [pc EXCEPT ![p] = "done"]
                    /\ resp' = [resp EXCEPT ![p] =
                         Thrown("Failed to generate booking reference")]
       [] outcome = "fk" /\ ~Retryable(outcome) ->
            /\ UNCHANGED <<bookings, nextId>>
            /\ pc' = [pc EXCEPT ![p] = "done"]
            /\ resp' = [resp EXCEPT ![p] = Thrown("ER_NO_REFERENCED_ROW_2")]
       [] OTHER ->
            /\ UNCHANGED <<bookings, nextId>>
            /\ pc' = [pc EXCEPT ![p] = "done"]
            /\ resp' = [resp EXCEPT ![p] =
                 Thrown(IF outcome = "dup" THEN "ER_DUP_ENTRY" ELSE "storage fault")]
  /\ UNCHANGED <<matches, settings, req, total, seen, last, cfgVars, adminVars>>

(***************************************************************************)
(* Match.delete (backend/src/models/Match.js): DELETE FROM matches, the     *)
(* bookings of the match go with it (ON DELETE CASCADE).                    *)
(***************************************************************************)
Cascade(rows, matchId) == {b \in rows : b.match_id # matchId}

MatchDelete(id) ==
  /\ id \in matches
  /\ matches' = matches \ {id}
  /\ bookings' = Cascade(bookings, id)
  /\ UNCHANGED <<settings, nextId, procVars, last, cfgVars, adminVars>>

(***************************************************************************)
(* DELETE /api/admin/matches/:id (adminController.js).                      *)
(***************************************************************************)
\* the static methods class Match defines
MatchMethods ==
  {"getAll", "getById", "getUpcoming", "getNext", "getLastCompleted", "getCompleted",
   "create", "updateResult", "update", "delete", "getByStatus", "getByCompetition"}

\* isValidId of adminController.js
isValidId(id) == toInt(id) # None /\ Val(toInt(id)) > 0

\* exports.deleteMatch: calling a method the class does not define throws a
\* TypeError before anything is awaited, and the handler's catch answers 500
DeleteMatch(id) ==
  LET err == IF ~isValidId(id) THEN "Invalid match id"
             ELSE IF "findById" \notin MatchMethods THEN "Failed to delete match"
             ELSE IF Val(toInt(id)) \notin matches THEN "Match not found"
             ELSE ""
  IN /\ matches' = IF err = "" THEN matches \ {Val(toInt(id))} ELSE matches
     /\ bookings' = IF err = "" THEN Cascade(bookings, Val(toInt(id))) ELSE bookings
     /\ last' = [op |-> "deleteMatch", id |-> id, status |-> "", error |-> err]
     /\ UNCHANGED <<settings, nextId, procVars, cfgVars, adminVars>>

(***************************************************************************)
(* Booking.updatePaymentStatus / cancel / delete.                           *)
(***************************************************************************)
NoCall == [op |-> "", id |-> "", status |-> "", error |-> ""]

\* Booking._toInt
Booking_toInt(value) == IF value \in Numerals THEN Some(IntLit(value)) ELSE None

\* faulty variant: the UPDATE carries no WHERE clause
SetStatusEveryRow(rows, bookingId, s) ==
  {[b EXCEPT !.payment_status = s] : b \in rows}

\* UPDATE bookings SET payment_status = ? WHERE id = ?
SetStatus(rows, bookingId, s) ==
  {IF b.id = bookingId THEN [b EXCEPT !.payment_status = s] ELSE b : b \in rows}

AffectedRows(rows, bookingId) == Cardinality({b \in rows : b.id = bookingId})

\* faulty variant: any status text is accepted
AllowedStatusAny(s) == TRUE

\* ['pending', 'paid', 'cancelled'].includes(s)
AllowedStatus(s) == s \in PAYMENT_STATUSES

UpdatePaymentStatus(id, status) ==
  LET bookingId == Booking_toInt(id)
      s == safeTrim(status)
      err == IF bookingId = None \/ Val(bookingId) = 0 THEN "Booking not found"
             ELSE IF ~AllowedStatus(s) THEN "Invalid payment status"
             ELSE IF AffectedRows(bookings, Val(bookingId)) = 0 THEN "Booking not found"
             ELSE ""
  IN /\ bookings' = IF err = "" THEN SetStatus(bookings, Val(bookingId), s) ELSE bookings
     /\ last' = [op |-> "updatePaymentStatus", id |-> id, status |-> status, error |-> err]
     /\ UNCHANGED <<matches, settings, nextId, procVars, cfgVars, adminVars>>

Cancel(id) ==
  LET bookingId == Booking_toInt(id)
      err == IF bookingId = None \/ Val(bookingId) = 0 THEN "Booking not found"
             ELSE IF AffectedRows(bookings, Val(bookingId)) = 0 THEN "Booking not found"
             ELSE ""
  IN /\ bookings' = IF err = "" THEN SetStatus(bookings, Val(bookingId), "cancelled") ELSE bookings
     /\ last' = [op |-> "cancel", id |-> id, status |-> "", error |-> err]
     /\ UNCHANGED <<matches, settings, nextId, procVars, cfgVars, adminVars>>

BookingDelete(id) ==
  LET bookingId == Booking_toInt(id)
      err == IF bookingId = None \/ Val(bookingId) = 0 THEN "Booking not found"
             ELSE IF AffectedRows(bookings, Val(bookingId)) = 0 THEN "Booking not found"
             ELSE ""
  IN /\ bookings' = IF err = "" THEN {b \in bookings : b.id # Val(bookingId)} ELSE bookings
     /\ last' = [op |-> "delete", id |-> id, status |-> "", error |-> err]
     /\ UNCHANGED <<matches, settings, nextId, procVars, cfgVars, adminVars>>

(***************************************************************************)
(* Booking.getStats and Booking.getRevenueByMatch: one aggregating SELECT   *)
(* each.  SUM over no rows (or over NULLs only) is NULL, modelled as None.  *)
(***************************************************************************)
RECURSIVE SumQuantity(_)
SumQuantity(rows) ==
  IF rows = {} THEN 0
  ELSE LET b == CHOOSE x \in rows : TRUE IN b.quantity + SumQuantity(rows \ {b})

RECURSIVE SumAmount(_)
SumAmount(rows) ==
  IF rows = {} THEN 0
  ELSE LET b == CHOOSE x \in rows : TRUE IN b.total_amount + SumAmount(rows \ {b})

\* SUM(CASE WHEN <b in sel> THEN quantity ELSE 0 END) over the rows of a group
SqlSumQuantity(rows, sel) == IF rows = {} THEN None ELSE Some(SumQuantity(sel))

\* SUM(CASE WHEN <b in sel> THEN total_amount ELSE 0 END)
SqlSumAmount(rows, sel) == IF rows = {} THEN None ELSE Some(SumAmount(sel))

\* value || 0 and COALESCE(value, 0)
OrZero(o) == IF IsSome(o) THEN Val(o) ELSE 0

OfType(rows, type) == {b \in rows : b.ticket_type = type}

\* faulty variant: every booking counts as paid
IsPaidAlways(b) == TRUE

\* CASE WHEN payment_status = 'paid'
IsPaid(b) == b.payment_status = "paid"

\* Booking.getStats
getStats(rows) ==
  [total_bookings |-> Cardinality(rows),
   total_tickets |-> OrZero(SqlSumQuantity(rows, rows)),
   total_revenue |-> OrZero(SqlSumAmount(rows, rows)),
   paid_revenue |-> OrZero(SqlSumAmount(rows, {b \in rows : IsPaid(b)})),
   vip_tickets |-> OrZero(SqlSumQuantity(rows, OfType(rows, "vip"))),
   regular_tickets |-> OrZero(SqlSumQuantity(rows, OfType(rows, "regular"))),
   student_tickets |-> OrZero(SqlSumQuantity(rows, OfType(rows, "student")))]

\* faulty variant: FROM matches m JOIN bookings b
InnerJoin(ms, bs) ==
  {p \in ms \X {Some(b) : b \in bs} : Val(p[2]).match_id = p[1]}

\* FROM matches m LEFT JOIN bookings b ON m.id = b.match_id: a match without
\* bookings is joined to one all-NULL booking
LeftJoin(ms, bs) ==
  {p \in ms \X {Some(b) : b \in bs} : Val(p[2]).match_id = p[1]}
    \cup {<<m, None>> : m \in {x \in ms : \A b \in bs : b.match_id # x}}

\* the SELECT list of getRevenueByMatch over one group of the join
RevenueRow(m, group) ==
  LET bs == {Val(p[2]) : p \in {q \in group : IsSome(q[2])}}
  IN [id |-> m,
      total_bookings |-> Cardinality(bs),
      total_tickets |-> OrZero(SqlSumQuantity(bs, bs)),
      total_revenue |-> OrZero(SqlSumAmount(bs, bs)),
      vip_tickets |-> OrZero(Some(SumQuantity(OfType(bs, "vip")))),
      regular_tickets |-> OrZero(Some(SumQuantity(OfType(bs, "regular")))),
      student_tickets |-> OrZero(Some(SumQuantity(OfType(bs, "student"))))]

\* Booking.getRevenueByMatch: GROUP BY m.id
getRevenueByMatch(ms, bs) ==
  LET joined == LeftJoin(ms, bs)
  IN {RevenueRow(m, {p \in joined : p[1] = m}) : m \in {p[1] : p \in joined}}

(***************************************************************************)
(* Configuration Store (backend/src/models/Settings.js) and                 *)
(* PUT /api/admin/settings/ticket-prices (adminController.js).              *)
(*                                                                          *)
(* `settings` is the committed table.  A transaction keeps its writes in    *)
(* cwrites until COMMIT; a row written by an open transaction is locked, so *)
(* another writer of the same key waits.                                    *)
(***************************************************************************)
\* Settings._toString / _ensureKey on the keys and values of the model
Settings_toString(value) == value

Upsert(store, k, v) == [x \in DOMAIN store \cup {k} |-> IF x = k THEN v ELSE store[x]]

Locked(k) == \E c \in CfgProcs : k \in DOMAIN cwrites[c]

Empty == [k \in {} |-> ""]

\* Settings.set: one autocommitted upsert
SettingsSet(key, value) ==
  /\ ~Locked(key)
  /\ settings' = Upsert(settings, key, Settings_toString(value))
  /\ UNCHANGED <<matches, bookings, nextId, procVars, last, cfgVars, adminVars>>

\* Settings.delete
SettingsDelete(key) ==
  /\ ~Locked(key)
  /\ key \in DOMAIN settings
  /\ settings' = [k \in DOMAIN settings \ {key} |-> settings[k]]
  /\ UNCHANGED <<matches, bookings, nextId, procVars, last, cfgVars, adminVars>>

NoPrices == [vip |-> "", regular |-> "", student |-> ""]
NoResult == [status |-> 0, message |-> ""]

MaxTicketPrice == 1000000

\* the checks of exports.updateTicketPrices; "" when the body passes
ValidateTicketPrices(body) ==
  LET vip == toInt(body.vip)
      regular == toInt(body.regular)
      student == toInt(body.student)
  IN IF vip = None \/ regular = None \/ student = None
     THEN "All ticket prices are required: vip, regular, student"
     ELSE IF Val(vip) < 0 \/ Val(regular) < 0 \/ Val(student) < 0
          THEN "Ticket prices cannot be negative"
     ELSE IF \/ Val(vip) > MaxTicketPrice
             \/ Val(regular) > MaxTicketPrice
             \/ Val(student) > MaxTicketPrice
          THEN "Ticket price is unrealistically large"
     ELSE ""

\* faulty variant: only the vip price is checked
PricesValidVipOnly(prices) == prices.vip \in Numerals /\ IntLit(prices.vip) >= 0

\* the check of Settings.setTicketPrices: every price finite and >= 0
PricesValid(prices) ==
  \A x \in {prices.vip, prices.regular, prices.student} :
     x \in Numerals /\ IntLit(x) >= 0

\* the batch Settings.setTicketPrices hands to setMultiple
Entries(prices) ==
  << <<"ticket_price_vip", String(IntLit(prices.vip))>>,
     <<"ticket_price_regular", String(IntLit(prices.regular))>>,
     <<"ticket_price_student", String(IntLit(prices.student))>> >>

\* PUT /api/admin/settings/ticket-prices
UpdateTicketPrices(c, body) ==
  /\ cpc[c] = "idle"
  /\ cin' = [cin EXCEPT ![c] = body]
  /\ LET v == ValidateTicketPrices(body)
     IN IF v # ""
        THEN /\ cpc' = [cpc EXCEPT ![c] = "done"]
             /\ cres' = [cres EXCEPT ![c] = [status |-> 400, message |-> v]]
        ELSE IF ~PricesValid(body)
        THEN /\ cpc' = [cpc EXCEPT ![c] = "done"]
             /\ cres' = [cres EXCEPT ![c] =
                  [status |-> 500, message |-> "Failed to update ticket prices"]]
        ELSE /\ cpc' = [cpc EXCEPT ![c] = "connect"]
             /\ cres' = [cres EXCEPT ![c] = [status |-> 200, message |-> ""]]
  /\ UNCHANGED <<matches, bookings, settings, nextId, procVars, last, cidx, cwrites, cconn, adminVars>>

\* Settings.setTicketPrices called directly
SetTicketPrices(c, prices) ==
  /\ cpc[c] = "idle"
  /\ cin' = [cin EXCEPT ![c] = prices]
  /\ IF ~PricesValid(prices)
     THEN /\ cpc' = [cpc EXCEPT ![c] = "done"]
          /\ cres' = [cres EXCEPT ![c] = [status |-> 0, message |-> "Invalid ticket prices"]]
     ELSE /\ cpc' = [cpc EXCEPT ![c] = "connect"]
          /\ cres' = [cres EXCEPT ![c] = NoResult]
  /\ UNCHANGED <<matches, bookings, settings, nextId, procVars, last, cidx, cwrites, cconn, adminVars>>

\* how a finished setMultiple call is reported: thrown errors become a 500
\* in the handler, and stay an error of the model call
Failed(c) ==
  IF cres[c].status = 200
  THEN [status |-> 500, message |-> "Failed to update ticket prices"]
  ELSE [status |-> 0, message |-> "storage error"]

Succeeded(c) ==
  IF cres[c].status = 200
  THEN [status |-> 200, message |-> "Ticket prices updated successfully"]
  ELSE [status |-> 0, message |-> "ok"]

\* faulty variant: the connection stays with the call
ReleaseNever(held, c) == held

\* setMultiple: finally { connection.release() }
Release(held, c) == [held EXCEPT ![c] = held[c] - 1]

\* setMultiple: await db.getConnection()
Connect(c, ok) ==
  /\ cpc[c] = "connect"
  /\ IF ok
     THEN /\ cconn' = [cconn EXCEPT ![c] = cconn[c] + 1]
          /\ cpc' = [cpc EXCEPT ![c] = "begin"]
          /\ cres' = cres
     ELSE /\ cconn' = cconn
          /\ cpc' = [cpc EXCEPT ![c] = "done"]
          /\ cres' = [cres EXCEPT ![c] = Failed(c)]
  /\ UNCHANGED <<matches, bookings, settings, nextId, procVars, last, cin, cidx, cwrites, adminVars>>

\* setMultiple: await connection.beginTransaction()
Begin(c, ok) ==
  /\ cpc[c] = "begin"
  /\ cpc' = [cpc EXCEPT ![c] = IF ok THEN "upsert" ELSE "rollback"]
  /\ cidx' = [cidx EXCEPT ![c] = 1]
  /\ UNCHANGED <<matches, bookings, settings, nextId, procVars, last, cin, cwrites, cconn, cres, adminVars>>

\* faulty variant: the upsert is committed on its own
TxWriteAutocommit(store, writes, k, v) == <<Upsert(store, k, v), writes>>

\* setMultiple: one INSERT ... ON DUPLICATE KEY UPDATE inside the transaction
TxWrite(store, writes, k, v) == <<store, Upsert(writes, k, v)>>

UpsertEntry(c, ok) ==
  /\ cpc[c] = "upsert"
  /\ LET e == Entries(cin[c])[cidx[c]]
         w == TxWrite(settings, cwrites[c], e[1], e[2])
     IN /\ \A d \in CfgProcs \ {c} : e[1] \notin DOMAIN cwrites[d]
        /\ IF ok
           THEN /\ settings' = w[1]
                /\ cwrites' = [cwrites EXCEPT ![c] = w[2]]
                /\ cidx' = [cidx EXCEPT ![c] = cidx[c] + 1]
                /\ cpc' = [cpc EXCEPT ![c] =
                     IF cidx[c] = Len(Entries(cin[c])) THEN "commit" ELSE "upsert"]
           ELSE /\ cpc' = [cpc EXCEPT ![c] = "rollback"]
                /\ UNCHANGED <<settings, cwrites, cidx>>
  /\ UNCHANGED <<matches, bookings, nextId, procVars, last, cin, cconn, cres, adminVars>>

\* setMultiple: await connection.commit(), then release in `finally`
Commit(c, ok) ==
  /\ cpc[c] = "commit"
  /\ IF ok
     THEN /\ settings' = [k \in DOMAIN settings \cup DOMAIN cwrites[c] |->
                IF k \in DOMAIN cwrites[c] THEN cwrites[c][k] ELSE settings[k]]
          /\ cwrites' = [cwrites EXCEPT ![c] = Empty]
          /\ cconn' = Release(cconn, c)
          /\ cpc' = [cpc EXCEPT ![c] = "done"]
          /\ cres' = [cres EXCEPT ![c] = Succeeded(c)]
     ELSE /\ cpc' = [cpc EXCEPT ![c] = "rollback"]
          /\ UNCHANGED <<settings, cwrites, cconn, cres>>
  /\ UNCHANGED <<matches, bookings, nextId, procVars, last, cin, cidx, adminVars>>

\* setMultiple: catch { rollback } (its own failure, ~ok, is swallowed),
\* rethrow, release in `finally`
Rollback(c, ok) ==
  /\ cpc[c] = "rollback"
  /\ ok \in BOOLEAN
  /\ cwrites' = [cwrites EXCEPT ![c] = Empty]
  /\ cconn' = Release(cconn, c)
  /\ cpc' = [cpc EXCEPT ![c] = "done"]
  /\ cres' = [cres EXCEPT ![c] = Failed(c)]
  /\ UNCHANGED <<matches, bookings, settings, nextId, procVars, last, cin, cidx, adminVars>>

(***************************************************************************)
(* Revenue (backend/src/models/Revenue.js) and POST /api/admin/revenue      *)
(* (adminController.js).  Amounts arrive as text; a parsed amount is kept   *)
(* in thousandths, a stored DECIMAL(10,2) amount in hundredths.             *)
(***************************************************************************)
REVENUE_SOURCES == {"tickets", "merchandise", "membership", "sponsorship", "other"}

AmountTexts == {"100.005", "50.005", "10", "0.004", "0", "-1"}

\* Number(value) / Number.parseFloat(value) of the amounts of the model, in
\* thousandths
AmountLit(s) ==
  CASE s = "100.005" -> 100005
    [] s = "50.005" -> 50005
    [] s = "10" -> 10000
    [] s = "0.004" -> 4
    [] s = "0" -> 0
    [] s = "-1" -> 0 - 1000

\* toFloat of adminController.js: null when not finite
Admin_toFloat(value) == IF value \in AmountTexts THEN Some(AmountLit(value)) ELSE None

\* Number(value): '' is 0, any other text that is no number is NaN
Number(value) ==
  IF value \in AmountTexts THEN Some(AmountLit(value))
  ELSE IF value = "" THEN Some(0) ELSE None

\* Math.round(n * 100) / 100: thousandths to hundredths, halves upwards
RoundHundredths(thousandths) == (thousandths + 5) \div 10

\* Revenue._toMoney
Revenue_toMoney(value) ==
  IF Number(value) = None THEN None ELSE Some(RoundHundredths(Val(Number(value))))

Today == "2026-11-05"

\* /^\d{4}-\d{2}-\d{2}$/ over the date texts of the model
Revenue_isValidDateString(d) == d \in {"2025-11-05", Today}

\* date.slice(0, 10)
Slice10(d) == IF d = "2025-11-05T10:00:00Z" THEN "2025-11-05" ELSE d

\* Revenue._normalizeDateInput: '' when the input is no date
Revenue_normalizeDateInput(date) ==
  IF date = "" THEN ""
  ELSE IF Revenue_isValidDateString(date) THEN date
  ELSE IF Revenue_isValidDateString(Slice10(date)) THEN Slice10(date)
  ELSE ""

\* isValidDate of adminController.js
Admin_isValidDate(v) == v \in {"2025-11-05", Today}

NoRevenueData == [op |-> "", id |-> "", source |-> "", amount |-> "", transaction_date |-> ""]
NoRevenueResult == [status |-> 0, message |-> "", id |-> 0]

RevenueEntry(id, source, amount, date) ==
  [id |-> id, source |-> source, amount |-> amount, transaction_date |-> date]

\* the checks of Revenue.create; "" when they pass
RevenueCreateCheck(data) ==
  IF data.source \notin REVENUE_SOURCES THEN "Invalid revenue source"
  ELSE IF Revenue_toMoney(data.amount) = None \/ Val(Revenue_toMoney(data.amount)) <= 0
       THEN "Amount must be a positive number"
  ELSE ""

\* transaction_date of Revenue.create: the normalized input || today
CreateDate(data) ==
  IF Revenue_normalizeDateInput(data.transaction_date) # ""
  THEN Revenue_normalizeDateInput(data.transaction_date)
  ELSE Today

\* the effect of Revenue.create for request r: the result and the table
CreateEffect(r, data, ok) ==
  LET chk == RevenueCreateCheck(data)
  IN IF chk # "" THEN <<chk, revenue, revNextId>>
     ELSE IF ~ok THEN <<"storage error", revenue, revNextId>>
     ELSE <<"",
            revenue \cup {RevenueEntry(revNextId, data.source,
                                      Val(Revenue_toMoney(data.amount)), CreateDate(data))},
            revNextId + 1>>

\* Revenue.create called directly
RevenueCreate(r, data, ok) ==
  /\ rin[r].op = ""
  /\ rin' = [rin EXCEPT ![r] = [data EXCEPT !.op = "create"]]
  /\ LET e == CreateEffect(r, data, ok)
     IN /\ revenue' = e[2]
        /\ revNextId' = e[3]
        /\ rres' = [rres EXCEPT ![r] =
             [status |-> 0, message |-> IF e[1] = "" THEN "ok" ELSE e[1],
              id |-> IF e[1] = "" THEN revNextId ELSE 0]]
  /\ UNCHANGED <<matches, bookings, settings, nextId, procVars, last, cfgVars, dashVars, rep, areq, lk>>

MaxRevenueAmount == 100000000

\* the checks of exports.addRevenue; "" when the body passes
AddRevenueCheck(body) ==
  LET amount == Admin_toFloat(body.amount)
      date == IF body.transaction_date # "" THEN body.transaction_date ELSE Today
  IN IF body.source = "" \/ amount = None THEN "Source and amount are required"
     ELSE IF body.source \notin REVENUE_SOURCES THEN "Invalid source"
     ELSE IF Val(amount) <= 0 THEN "Amount must be greater than 0"
     ELSE IF \/ Val(amount) \div 1000 > MaxRevenueAmount
             \/ Val(amount) \div 1000 = MaxRevenueAmount /\ Val(amount) % 1000 > 0
          THEN "Amount is unrealistically large"
     ELSE IF ~Admin_isValidDate(date) THEN "Invalid transaction_date. Use YYYY-MM-DD"
     ELSE ""

\* POST /api/admin/revenue
AddRevenue(r, body, ok) ==
  /\ rin[r].op = ""
  /\ rin' = [rin EXCEPT ![r] = [body EXCEPT !.op = "add"]]
  /\ LET v == AddRevenueCheck(body)
         data == [body EXCEPT !.transaction_date =
                    IF body.transaction_date # "" THEN body.transaction_date ELSE Today]
         e == CreateEffect(r, data, ok)
     IN IF v # ""
        THEN /\ rres' = [rres EXCEPT ![r] = [status |-> 400, message |-> v, id |-> 0]]
             /\ UNCHANGED <<revenue, revNextId>>
        ELSE /\ revenue' = e[2]
             /\ revNextId' = e[3]
             /\ rres' = [rres EXCEPT ![r] =
                  IF e[1] = ""
                  THEN [status |-> 201, message |-> "Revenue record added successfully",
                        id |-> revNextId]
                  ELSE [status |-> 500, message |-> "Failed to add revenue record", id |-> 0]]
  /\ UNCHANGED <<matches, bookings, settings, nextId, procVars, last, cfgVars, dashVars, rep, areq, lk>>

\* Revenue._validateId
Revenue_validateId(id) == IF id \in Numerals /\ IntLit(id) > 0 THEN Some(IntLit(id)) ELSE None

\* Revenue.update
RevenueUpdate(r, id, data, ok) ==
  /\ rin[r].op = ""
  /\ rin' = [rin EXCEPT ![r] = [data EXCEPT !.op = "update", !.id = id]]
  /\ LET revenueId == Revenue_validateId(id)
         chk == RevenueCreateCheck(data)
         date == Revenue_normalizeDateInput(data.transaction_date)
         err == IF revenueId = None THEN "Invalid revenue id"
                ELSE IF chk # "" THEN chk
                ELSE IF date = "" THEN "transaction_date must be a valid date (YYYY-MM-DD)"
                ELSE IF ~ok THEN "storage error"
                ELSE IF \A row \in revenue : row.id # Val(revenueId)
                     THEN "Revenue record not found"
                ELSE ""
     IN /\ revenue' =
             IF err = ""
             THEN {IF row.id = Val(revenueId)
                   THEN RevenueEntry(row.id, data.source, Val(Revenue_toMoney(data.amount)), date)
                   ELSE row : row \in revenue}
             ELSE revenue
        /\ rres' = [rres EXCEPT ![r] =
             [status |-> 0, message |-> IF err = "" THEN "ok" ELSE err, id |-> 0]]
  /\ UNCHANGED <<matches, bookings, settings, nextId, procVars, last, cfgVars, revNextId, dashVars, rep, areq, lk>>

\* Revenue.delete
RevenueDelete(r, id) ==
  /\ rin[r].op = ""
  /\ rin' = [rin EXCEPT ![r] = [NoRevenueData EXCEPT !.op = "delete", !.id = id]]
  /\ LET revenueId == Revenue_validateId(id)
         err == IF revenueId = None THEN "Invalid revenue id"
                ELSE IF \A row \in revenue : row.id # Val(revenueId)
                     THEN "Revenue record not found"
                ELSE ""
     IN /\ revenue' = IF err = "" THEN {row \in revenue : row.id # Val(revenueId)} ELSE revenue
        /\ rres' = [rres EXCEPT ![r] =
             [status |-> 0, message |-> IF err = "" THEN "ok" ELSE err, id |-> 0]]
  /\ UNCHANGED <<matches, bookings, settings, nextId, procVars, last, cfgVars, revNextId, dashVars, rep, areq, lk>>

RECURSIVE SumCents(_)
SumCents(rows) ==
  IF rows = {} THEN 0
  ELSE LET row == CHOOSE x \in rows : TRUE IN row.amount + SumCents(rows \ {row})

\* the rows of SELECT source, SUM(amount), COUNT(*) ... GROUP BY source
SummaryRows(rows) ==
  [s \in {row.source : row \in rows} |->
     [total_amount |-> SumCents({row \in rows : row.source = s}),
      transaction_count |-> Cardinality({row \in rows : row.source = s})]]

RECURSIVE SumTotals(_, _)
SumTotals(breakdown, sources) ==
  IF sources = {} THEN 0
  ELSE LET s == CHOOSE x \in sources : TRUE
       IN 10 * breakdown[s].total_amount + SumTotals(breakdown, sources \ {s})

\* Revenue.getSummary() without a date range: the per-source totals as the
\* query returns them, and their sum rounded to hundredths
getSummary(rows) ==
  LET breakdown == SummaryRows(rows)
  IN [breakdown |-> breakdown,
      total_revenue |-> RoundHundredths(SumTotals(breakdown, DOMAIN breakdown))]

\* the order of the dates of the model, for BETWEEN
DateOrd(d) == IF d = "2025-11-05" THEN 1 ELSE 2

\* WHERE transaction_date BETWEEN start AND end
Between(rows, start, end) ==
  {row \in rows : DateOrd(start) <= DateOrd(row.transaction_date)
                   /\ DateOrd(row.transaction_date) <= DateOrd(end)}

\* the argument check of Revenue.getSummary(startDate, endDate); "" when it
\* passes
SummaryRangeCheck(startDate, endDate) ==
  LET start == IF startDate # "" THEN Revenue_normalizeDateInput(startDate) ELSE ""
      end == IF endDate # "" THEN Revenue_normalizeDateInput(endDate) ELSE ""
  IN IF (startDate # "" \/ endDate # "") /\ (start = "" \/ end = "")
     THEN "If filtering, provide startDate and endDate as YYYY-MM-DD"
     ELSE ""

\* GET /api/admin/revenue/summary?start_date=&end_date= ; an absent
\* parameter is the empty text
GetRevenueSummary(start_date, end_date, ok) ==
  LET answer ==
        IF start_date # "" /\ ~Admin_isValidDate(start_date)
        THEN <<400, "Invalid start_date. Use \"YYYY-MM-DD\"", {}>>
        ELSE IF end_date # "" /\ ~Admin_isValidDate(end_date)
        THEN <<400, "Invalid end_date. Use \"YYYY-MM-DD\"", {}>>
        ELSE IF SummaryRangeCheck(start_date, end_date) # "" \/ ~ok
        THEN <<500, "Failed to fetch revenue summary", {}>>
        ELSE <<200, "",
               {getSummary(IF start_date # ""
                           THEN Between(revenue, Revenue_normalizeDateInput(start_date),
                                        Revenue_normalizeDateInput(end_date))
                           ELSE revenue)}>>
  IN /\ rep' = [op |-> "GET summary", start_date |-> start_date, end_date |-> end_date,
                status |-> answer[1], message |-> answer[2], data |-> answer[3]]
     /\ UNCHANGED <<matches, bookings, settings, nextId, procVars, last, cfgVars, revVars, dashVars, areq, lk>>

(***************************************************************************)
(* Revenue.getMonthlyRevenue / getYearlyRevenue and                         *)
(* GET /api/admin/revenue/monthly (adminController.js).                     *)
(***************************************************************************)
MinYear == 1970
MaxYear == 3000
MinHandlerYear == 2000
MaxHandlerYear == 2100

NoReport == [op |-> "", year |-> "", month |-> "", status |-> 0, message |-> ""]

\* the year check of Revenue.getMonthlyRevenue / getYearlyRevenue
InvalidYear(year) ==
  LET y == Booking_toInt(year) IN y = None \/ Val(y) < MinYear \/ Val(y) > MaxYear

\* the month check of Revenue.getMonthlyRevenue
InvalidMonth(month) ==
  LET m == Booking_toInt(month) IN m = None \/ Val(m) < 1 \/ Val(m) > 12

\* Revenue.getMonthlyRevenue called directly
MonthlyRevenue(year, month, ok) ==
  /\ rep' = [op |-> "getMonthlyRevenue", year |-> year, month |-> month, status |-> 0,
             message |-> IF InvalidYear(year) THEN "Invalid year"
                         ELSE IF InvalidMonth(month) THEN "Invalid month"
                         ELSE IF ok THEN "ok" ELSE "storage error"]
  /\ UNCHANGED <<matches, bookings, settings, nextId, procVars, last, cfgVars, revVars, dashVars, areq, lk>>

\* Revenue.getYearlyRevenue called directly
YearlyRevenue(year, ok) ==
  /\ rep' = [op |-> "getYearlyRevenue", year |-> year, month |-> "", status |-> 0,
             message |-> IF InvalidYear(year) THEN "Invalid year"
                         ELSE IF ok THEN "ok" ELSE "storage error"]
  /\ UNCHANGED <<matches, bookings, settings, nextId, procVars, last, cfgVars, revVars, dashVars, areq, lk>>

\* GET /api/admin/revenue/monthly?year=&month=
GetMonthlyRevenue(year, month, ok) ==
  LET y == toInt(year)
      m == toInt(month)
      answer ==
        IF y = None \/ m = None
        THEN <<400, "Year and month are required query parameters">>
        ELSE IF Val(y) < MinHandlerYear \/ Val(y) > MaxHandlerYear
        THEN <<400, "Year must be between 2000 and 2100">>
        ELSE IF Val(m) < 1 \/ Val(m) > 12
        THEN <<400, "Month must be between 1 and 12">>
        ELSE IF InvalidYear(year) \/ InvalidMonth(month) \/ ~ok
        THEN <<500, "Failed to fetch monthly revenue">>
        ELSE <<200, "">>
  IN /\ rep' = [op |-> "GET monthly", year |-> year, month |-> month,
                status |-> answer[1], message |-> answer[2]]
     /\ UNCHANGED <<matches, bookings, settings, nextId, procVars, last, cfgVars, revVars, dashVars, areq, lk>>

(***************************************************************************)
(* GET /api/admin/dashboard (adminController.getDashboardStats): seven      *)
(* model reads started together and awaited with Promise.all.               *)
(***************************************************************************)
SubCalls ==
  {"Player.getAll", "Match.getUpcoming", "Match.getCompleted", "Booking.getStats",
   "Revenue.getSummary", "Settings.getTicketPrices", "Player.getTopScorers"}

NoDashboard == [status |-> 0, message |-> "", data |-> {}]

\* Promise.allSettled: settles only when every promise has settled, never rejects
PromiseAllSettled(results) ==
  IF \E c \in DOMAIN results : results[c] = "pending" THEN "pending" ELSE "fulfilled"

\* Promise.all: rejects as soon as one promise rejects, fulfils when all have
PromiseAll(results) ==
  IF \E c \in DOMAIN results : results[c] = "failed" THEN "rejected"
  ELSE IF \E c \in DOMAIN results : results[c] = "pending" THEN "pending"
  ELSE "fulfilled"

\* the handler is entered: the seven reads are issued, then it awaits
DashboardStart ==
  /\ dpc = "idle"
  /\ dpc' = "await"
  /\ dsub' = [c \in SubCalls |-> "pending"]
  /\ dresp' = NoDashboard
  /\ UNCHANGED <<matches, bookings, settings, nextId, procVars, last, cfgVars, revVars, rep, areq, lk>>

\* one of the reads resolves or rejects (also after the handler has answered)
SubCallSettles(c, ok) ==
  /\ dpc # "idle"
  /\ dsub[c] = "pending"
  /\ dsub' = [dsub EXCEPT ![c] = IF ok THEN "ok" ELSE "failed"]
  /\ UNCHANGED <<matches, bookings, settings, nextId, procVars, last, cfgVars, revVars, rep, areq, lk, dpc, dresp>>

\* the await returns or throws: sendSuccess with every part, or the catch block
DashboardRespond ==
  /\ dpc = "await"
  /\ PromiseAll(dsub) # "pending"
  /\ dpc' = "done"
  /\ dresp' = IF PromiseAll(dsub) = "fulfilled"
               THEN [status |-> 200, message |-> "", data |-> {c \in SubCalls : dsub[c] = "ok"}]
               ELSE [status |-> 500, message |-> "Failed to fetch dashboard statistics", data |-> {}]
  /\ UNCHANGED <<matches, bookings, settings, nextId, procVars, last, cfgVars, revVars, rep, areq, lk, dsub>>

\* the next dashboard request, once the reads of the previous one are over
DashboardAgain ==
  /\ dpc = "done"
  /\ \A c \in SubCalls : dsub[c] # "pending"
  /\ dpc' = "idle"
  /\ UNCHANGED <<matches, bookings, settings, nextId, procVars, last, cfgVars, revVars, rep, areq, lk, dsub, dresp>>

(***************************************************************************)
(* Booking lookup by email: GET /bookings?email= (publicRoutes.js) and      *)
(* Booking.getByEmail.                                                      *)
(***************************************************************************)
NoLookup == [op |-> "", email |-> "", status |-> 0, message |-> "", data |-> {}]

\* Booking.getAll: bookings b JOIN matches m ON b.match_id = m.id
Booking_getAll == {b \in bookings : b.match_id \in matches}

\* faulty variant: the handler returns what getAll returned
FilterNothing(rows, email) == rows

\* bookings.filter((b) => (b.customer_email || '').toLowerCase() === email)
FilterByEmail(rows, email) == {b \in rows : toLowerCase(b.customer_email) = email}

\* comparison of two strings under COLLATE utf8mb4_unicode_ci
SqlEquals(a, b) == toLowerCase(a) = toLowerCase(b)

\* GET /bookings?email= ; an absent parameter is the empty text
GetBookings(query, ok) ==
  LET email == toLowerCase(safeTrim(query))
      answer ==
        IF email = "" THEN <<400, "Missing required query param: email", {}>>
        ELSE IF ~isValidEmail(email) THEN <<400, "Invalid email", {}>>
        ELSE IF ~ok THEN <<500, "Failed to fetch bookings", {}>>
        ELSE <<200, "", FilterByEmail(Booking_getAll, email)>>
  IN /\ lk' = [op |-> "GET /bookings", email |-> query, status |-> answer[1],
               message |-> answer[2], data |-> answer[3]]
     /\ UNCHANGED <<matches, bookings, settings, nextId, procVars, last, cfgVars, revVars, dashVars, rep, areq>>

\* Booking.getByEmail called directly
Booking_getByEmail(query, ok) ==
  LET normalized == toLowerCase(safeTrim(query))
      answer ==
        IF normalized = "" THEN <<"ok", {}>>
        ELSE IF ~ok THEN <<"storage error", {}>>
        ELSE <<"ok", {b \in Booking_getAll : SqlEquals(b.customer_email, normalized)}>>
  IN /\ lk' = [op |-> "getByEmail", email |-> query, status |-> 0,
               message |-> answer[1], data |-> answer[2]]
     /\ UNCHANGED <<matches, bookings, settings, nextId, procVars, last, cfgVars, revVars, dashVars, rep, areq>>

(***************************************************************************)
(* Admin router (adminRoutes.js): router.use(auth); router.use(auth.isAdmin) *)
(* in front of every admin handler (middleware/auth.js).  An Authorization  *)
(* header is the sequence of its words, a missing header the empty one.     *)
(***************************************************************************)
NoUser == [id |-> None, role |-> "", type |-> "", isAdmin |-> FALSE]

NoAdminRequest(secret) ==
  [secret |-> secret, op |-> "", header |-> <<>>, status |-> 0, message |-> "",
   user |-> NoUser, next |-> FALSE]

\* jwt.verify(token, JWT_SECRET): the error it throws and the payload it returns
jwt_verify(token) ==
  CASE token = "expired" -> [error |-> "TokenExpiredError", decoded |-> NoUser]
    [] token = "noid" -> [error |-> "", decoded |-> [NoUser EXCEPT !.role = "admin"]]
    [] token = "user" -> [error |-> "", decoded |-> [NoUser EXCEPT !.id = Some(1), !.role = "user", !.type = "user"]]
    [] token = "admin" -> [error |-> "", decoded |-> [NoUser EXCEPT !.id = Some(2), !.role = "admin"]]
    [] token = "editor" -> [error |-> "", decoded |-> [NoUser EXCEPT !.id = Some(3), !.role = "editor"]]
    [] token = "super" -> [error |-> "", decoded |-> [NoUser EXCEPT !.id = Some(4), !.role = "super_admin"]]
    [] token = "type" -> [error |-> "", decoded |-> [NoUser EXCEPT !.id = Some(5), !.type = "admin"]]
    [] token = "flag" -> [error |-> "", decoded |-> [NoUser EXCEPT !.id = Some(6), !.isAdmin = TRUE]]
    [] OTHER -> [error |-> "JsonWebTokenError", decoded |-> NoUser]

\* auth: <<status, message, req.user>>; status 0 is next()
auth(secret, header) ==
  IF ~secret THEN <<500, "Server configuration error.", NoUser>>
  ELSE IF Len(header) < 2 \/ header[1] # "Bearer"
  THEN <<401, "Authentication token missing.", NoUser>>
  ELSE IF header[2] = "" THEN <<401, "Authentication token malformed.", NoUser>>
  ELSE LET v == jwt_verify(header[2])
       IN IF v.error = "TokenExpiredError"
          THEN <<401, "Session expired. Please login again.", NoUser>>
          ELSE IF v.error # "" THEN <<401, "Invalid authentication token.", NoUser>>
          ELSE IF v.decoded.id = None THEN <<401, "Invalid authentication token.", NoUser>>
          ELSE <<0, "", v.decoded>>

\* faulty variant: every verified identity counts as an admin
isAdminAnyone(user) ==
  IF user = NoUser THEN <<401, "Unauthorized.">> ELSE <<0, "">>

\* isAdmin: <<status, message>>; status 0 is next()
isAdmin(user) ==
  IF user = NoUser THEN <<401, "Unauthorized.">>
  ELSE IF ~(user.type = "admin" \/ user.isAdmin \/ user.role \in {"super_admin", "admin", "editor"})
  THEN <<403, "Access denied. Admin privileges required.">>
  ELSE <<0, "">>

\* a request arrives at the admin router and goes through both middlewares
AdminRequest(header) ==
  LET a == auth(areq.secret, header)
      b == IF a[1] = 0 THEN isAdmin(a[3]) ELSE <<a[1], a[2]>>
  IN /\ areq' = [secret |-> areq.secret, op |-> "request", header |-> header,
                 status |-> b[1], message |-> b[2], user |-> a[3], next |-> b[1] = 0]
     /\ UNCHANGED <<matches, bookings, settings, nextId, procVars, last, cfgVars, revVars, dashVars, rep, lk>>

\* the server process starts with or without JWT_SECRET in its environment;
\* no request is open across a restart
Deploy(secret) ==
  /\ \A p \in Procs : pc[p] \in {"idle", "done"}
  /\ \A c \in CfgProcs : cpc[c] \in {"idle", "done"}
  /\ dpc \in {"idle", "done"}
  /\ areq' = NoAdminRequest(secret)
  /\ UNCHANGED <<matches, bookings, settings, nextId, procVars, last, cfgVars, revVars, dashVars, rep, lk>>

(***************************************************************************)
(* Initial state: the tables as schema.sql leaves them, no request open.    *)
(***************************************************************************)
SeedSettings ==
  [k \in TicketKeys |->
     CASE k = "ticket_price_vip" -> "20"
       [] k = "ticket_price_regular" -> "10"
       [] k = "ticket_price_student" -> "5"]

Init ==
  /\ matches = 1..InitMatches
  /\ bookings = {}
  /\ settings = SeedSettings
  /\ nextId = 1
  /\ pc = [p \in Procs |-> "idle"]
  /\ req = [p \in Procs |-> NoBody]
  /\ total = [p \in Procs |-> 0]
  /\ seen = [p \in Procs |-> None]
  /\ attempt = [p \in Procs |-> 0]
  /\ reference = [p \in Procs |-> 0]
  /\ resp = [p \in Procs |-> NoResp]
  /\ last = NoCall
  /\ cpc = [c \in CfgProcs |-> "idle"]
  /\ cin = [c \in CfgProcs |-> NoPrices]
  /\ cidx = [c \in CfgProcs |-> 0]
  /\ cwrites = [c \in CfgProcs |-> Empty]
  /\ cconn = [c \in CfgProcs |-> 0]
  /\ cres = [c \in CfgProcs |-> NoResult]
  /\ revenue = {}
  /\ revNextId = 1
  /\ rin = [r \in RevProcs |-> NoRevenueData]
  /\ rres = [r \in RevProcs |-> NoRevenueResult]
  /\ dpc = "idle"
  /\ dsub = [c \in SubCalls |-> "none"]
  /\ dresp = NoDashboard
  /\ lk = NoLookup
  /\ rep = NoReport
  /\ areq = NoAdminRequest(TRUE)

(***************************************************************************)
(* Inputs and specifications.                                               *)
(*                                                                          *)
(* Every specification starts from Init and runs the same actions; they     *)
(* differ in the operations that take part and in the inputs drawn.         *)
(***************************************************************************)
MatchIdText == {String(i) : i \in 0..InitMatches}
BookingIdText == {String(i) : i \in 0..NProcs}

\* steps of an open POST /bookings request
BookingSteps(P) ==
  \/ \E p \in P : MatchLookup(p)
  \/ \E p \in P : ReadPrices(p)
  \/ \E p \in P : MatchExists(p)
  \/ \E p \in P, ref \in Refs, outcome \in {"ok", "dup", "fk", "fault"} :
        InsertAttempt(p, ref, outcome)

\* steps of an open Settings.setMultiple call
CfgSteps(C) ==
  \/ \E c \in C, ok \in BOOLEAN : Connect(c, ok)
  \/ \E c \in C, ok \in BOOLEAN : Begin(c, ok)
  \/ \E c \in C, ok \in BOOLEAN : UpsertEntry(c, ok)
  \/ \E c \in C, ok \in BOOLEAN : Commit(c, ok)
  \/ \E c \in C, ok \in BOOLEAN : Rollback(c, ok)

\* Spec: concurrent booking creations while matches are deleted and the
\* first booking is set back to pending
Bodies ==
  [match_id : MatchIdText,
   customer_name : {"Ann"},
   customer_email : {"A@x.io"},
   customer_phone : {"0700"},
   ticket_type : {"vip"},
   quantity : {"2"},
   total_amount : {""}]

Next ==
  \/ \E p \in Procs, body \in Bodies : Receive(p, body)
  \/ BookingSteps(Procs)
  \/ \E id \in 1..InitMatches : MatchDelete(id)
  \/ UpdatePaymentStatus("1", "pending")

Spec == Init /\ [][Next]_vars

\* SpecPrice: booking creations while the ticket prices change
PricedBodies ==
  [match_id : {"1"},
   customer_name : {"Ann"},
   customer_email : {"A@x.io"},
   customer_phone : {"0700"},
   ticket_type : {"vip", "student"},
   quantity : {"2", "50"},
   total_amount : {"", "1"}]

LeanPrices == [vip : {"5", "10"}, regular : {"10"}, student : {"10"}]

NextPrice ==
  \/ \E body \in PricedBodies : Receive(1, body)
  \/ BookingSteps({1})
  \/ \E key \in TicketKeys, value \in {"abc", "-1"} : SettingsSet(key, value)
  \/ \E key \in TicketKeys : SettingsDelete(key)
  \/ \E body \in LeanPrices : UpdateTicketPrices(1, body)
  \/ CfgSteps({1})

SpecPrice == Init /\ [][NextPrice]_vars

\* a plain valid request
PlainBodies ==
  [match_id : {"1"},
   customer_name : {"Ann"},
   customer_email : {"A@x.io"},
   customer_phone : {"0700"},
   ticket_type : {"vip"},
   quantity : {"2"},
   total_amount : {""}]

\* SpecInput: a booking request over every combination of field values,
\* next to a plain one
AllBodies ==
  [match_id : {"abc"} \cup MatchIdText,
   customer_name : {"", "Ann"},
   customer_email : {"", "bad", "A@x.io"},
   customer_phone : {"", "0700"},
   ticket_type : {"", "gold", "vip", "regular", "student"},
   quantity : {"abc", "-1", "0", "1", "50", "51"},
   total_amount : {"", "1"}]

NextInput ==
  \/ \E body \in AllBodies : Receive(1, body)
  \/ \E body \in PlainBodies : Receive(2, body)
  \/ BookingSteps({1, 2})
  \/ \E id \in 1..InitMatches : MatchDelete(id)

SpecInput == Init /\ [][NextInput]_vars

\* SpecAdmin: status changes and deletions over every id and status text
IdText == {"abc"} \cup BookingIdText
StatusText == {"", "pending", "paid", "cancelled", "refunded"}

NextAdmin ==
  \/ \E p \in {1, 2}, body \in PlainBodies : Receive(p, body)
  \/ BookingSteps({1, 2})
  \/ \E id \in IdText, status \in StatusText : UpdatePaymentStatus(id, status)
  \/ \E id \in IdText : Cancel(id)
  \/ \E id \in IdText : BookingDelete(id)
  \/ \E id \in {"abc"} \cup MatchIdText : DeleteMatch(id)

SpecAdmin == Init /\ [][NextAdmin]_vars

\* SpecStats: bookings of every ticket type come, are cancelled and go while
\* the reports are read
StatBodies(types, quantity) ==
  [match_id : MatchIdText \ {"0"},
   customer_name : {"Ann"},
   customer_email : {"A@x.io"},
   customer_phone : {"0700"},
   ticket_type : types,
   quantity : {quantity},
   total_amount : {""}]

NextStats ==
  \/ \E body \in StatBodies({"vip", "regular"}, "1") : Receive(1, body)
  \/ \E body \in StatBodies({"vip", "student"}, "2") : Receive(2, body)
  \/ BookingSteps({1, 2})
  \/ \E id \in 1..InitMatches : MatchDelete(id)
  \/ \E id \in {"1", "2"} : Cancel(id)
  \/ BookingDelete("1")

SpecStats == Init /\ [][NextStats]_vars

\* SpecRev: revenue entries are added, created, updated and deleted
RevenueData(sources, amounts, dates) ==
  [op : {""}, id : {""}, source : sources, amount : amounts, transaction_date : dates]

NextRev ==
  \/ \E r \in RevProcs, ok \in BOOLEAN :
        \E body \in RevenueData({"tickets", "merchandise", "bad"},
                                 {"100.005", "50.005", "abc"},
                                 {"", "garbage"}) :
           AddRevenue(r, body, ok)
  \/ \E r \in RevProcs, ok \in BOOLEAN :
        \E data \in RevenueData({"tickets", "bad"},
                                 {"100.005", "50.005", "-1"},
                                 {"2025-11-05", "garbage"}) :
           RevenueCreate(r, data, ok)
  \/ \E r \in RevProcs, id \in {"abc", "1"}, ok \in BOOLEAN :
        \E data \in RevenueData({"merchandise", "bad"}, {"10", "0"},
                                 {"2025-11-05T10:00:00Z", "garbage"}) :
           RevenueUpdate(r, id, data, ok)
  \/ \E r \in RevProcs : RevenueDelete(r, "1")

SpecRev == Init /\ [][NextRev]_vars

\* SpecReport: the time-windowed revenue reports over years and months
YearText == {"abc", "1969", "1970", "1999", "2000", "2100", "2101", "3000", "3001"}
MonthText == {"abc", "0", "1", "12", "13"}

NextReport ==
  \/ \E year \in YearText, month \in MonthText, ok \in BOOLEAN :
        GetMonthlyRevenue(year, month, ok)
  \/ \E year \in YearText, month \in MonthText, ok \in BOOLEAN :
        MonthlyRevenue(year, month, ok)
  \/ \E year \in YearText, ok \in BOOLEAN : YearlyRevenue(year, ok)

SpecReport == Init /\ [][NextReport]_vars

\* SpecDash: dashboard requests whose reads succeed or fail in any order
NextDash ==
  \/ DashboardStart
  \/ \E c \in SubCalls, ok \in BOOLEAN : SubCallSettles(c, ok)
  \/ DashboardRespond
  \/ DashboardAgain

SpecDash == Init /\ [][NextDash]_vars

\* SpecLookup: bookings of two customers under several capitalizations,
\* looked up by email
EmailBodies(emails) ==
  [match_id : {"1"},
   customer_name : {"Ann"},
   customer_email : emails,
   customer_phone : {"0700"},
   ticket_type : {"vip"},
   quantity : {"1"},
   total_amount : {""}]

EmailText == {"", "bad", "a@x.io", "A@x.io", "a@X.IO", "b@x.io"}

NextLookup ==
  \/ \E body \in EmailBodies({"A@x.io", "a@X.IO"}) : Receive(1, body)
  \/ \E body \in EmailBodies({"B@x.io", "a@x.io"}) : Receive(2, body)
  \/ BookingSteps({1, 2})
  \/ \E query \in EmailText, ok \in BOOLEAN : GetBookings(query, ok)
  \/ \E query \in EmailText, ok \in BOOLEAN : Booking_getByEmail(query, ok)

SpecLookup == Init /\ [][NextLookup]_vars

\* SpecAuth: requests to the admin router under every kind of Authorization
\* header; a handler is entered only on next() of both middlewares
Headers ==
  {<<>>, <<"Bearer">>, <<"Basic", "admin">>, <<"Bearer", "">>}
    \cup {<<"Bearer", t>> : t \in {"garbage", "expired", "noid", "user", "admin",
                                     "editor", "super", "type", "flag"}}

NextAuth ==
  \/ \E secret \in BOOLEAN : Deploy(secret)
  \/ \E header \in Headers : AdminRequest(header)
  \/ areq.next /\ \E vip \in {"abc", "20"} :
        UpdateTicketPrices(1, [vip |-> vip, regular |-> "10", student |-> "5"])
  \/ CfgSteps({1})
  \/ areq.next /\ \E body \in RevenueData({"tickets"}, {"10", "abc"}, {""}) :
        AddRevenue(1, body, TRUE)
  \/ areq.next /\ \E year \in {"1999", "2000"} : GetMonthlyRevenue(year, "1", TRUE)
  \/ areq.next /\ DeleteMatch("1")
  \/ areq.next /\ DashboardStart
  \/ SubCallSettles("Booking.getStats", FALSE)
  \/ DashboardRespond

SpecAuth == Init /\ [][NextAuth]_vars

\* SpecFrame: two bookings whose status is set and cancelled while the
\* ticket prices are replaced
NextFrame ==
  \/ \E p \in {1, 2}, body \in PlainBodies : Receive(p, body)
  \/ BookingSteps({1, 2})
  \/ \E id \in {"1", "2"}, status \in {"pending", "cancelled"} :
        UpdatePaymentStatus(id, status)
  \/ \E id \in {"1", "2"} : Cancel(id)
  \/ SetTicketPrices(1, [vip |-> "50", regular |-> "20", student |-> "10"])
  \/ CfgSteps({1})

SpecFrame == Init /\ [][NextFrame]_vars

\* a valid triple, different from the seeded one
OtherPrices == [vip |-> "50", regular |-> "20", student |-> "10"]

\* SpecSummary: revenue entries are added and summarized over date ranges
\* given in full, in part and malformed
DateText == {"", "2025-11-05", "2026-11-05", "garbage"}

NextSummary ==
  \/ \E r \in RevProcs, ok \in BOOLEAN :
        \E body \in RevenueData({"tickets", "bad"}, {"10", "abc"}, {"", "2025-11-05"}) :
           AddRevenue(r, body, ok)
  \/ \E start_date \in DateText, end_date \in DateText, ok \in BOOLEAN :
        GetRevenueSummary(start_date, end_date, ok)

SpecSummary == Init /\ [][NextSummary]_vars

\* SpecIso: two setTicketPrices calls with different triples run side by
\* side while a booking is created
SecondPrices == [vip |-> "10", regular |-> "5", student |-> "1"]

IsoBodies ==
  [match_id : {"1"},
   customer_name : {"Ann"},
   customer_email : {"a@x.io"},
   customer_phone : {"0700"},
   ticket_type : {"vip", "student"},
   quantity : {"1"},
   total_amount : {""}]

NextIso ==
  \/ \E body \in IsoBodies : Receive(1, body)
  \/ BookingSteps({1})
  \/ SetTicketPrices(1, OtherPrices)
  \/ SetTicketPrices(2, SecondPrices)
  \/ CfgSteps({1, 2})

SpecIso == Init /\ [][NextIso]_vars

\* SpecRows: one booking over ticket types and quantities at and beyond the
\* limits, its status set to every text
RowBodies ==
  [match_id : {"1"},
   customer_name : {"Ann"},
   customer_email : {"a@x.io"},
   customer_phone : {"0700"},
   ticket_type : {"gold", "vip", "regular", "student"},
   quantity : {"-1", "0", "1", "50", "51"},
   total_amount : {""}]

NextRows ==
  \/ \E body \in RowBodies : Receive(1, body)
  \/ BookingSteps({1})
  \/ \E id \in {"1"}, status \in StatusText : UpdatePaymentStatus(id, status)
  \/ Cancel("1")

SpecRows == Init /\ [][NextRows]_vars

\* SpecCfg: ticket-price updates over valid and invalid prices
PriceBodies ==
  [vip : {"abc", "-1", "5", "1000001"},
   regular : {"-1", "10"},
   student : {"abc", "5", "10"}]

NextCfg ==
  \/ \E body \in PriceBodies : UpdateTicketPrices(1, body)
  \/ \E prices \in PriceBodies : SetTicketPrices(1, prices)
  \/ \E c \in CfgProcs \ {1} : SetTicketPrices(c, OtherPrices)
  \/ CfgSteps(CfgProcs)
  \/ \E key \in TicketKeys, value \in {"abc"} : SettingsSet(key, value)
  \/ \E key \in TicketKeys : SettingsDelete(key)

SpecCfg == Init /\ [][NextCfg]_vars

(***************************************************************************)
(* Properties.                                                              *)
(***************************************************************************)
\* the row a finishing request p reports as created
Created(p) == {b \in bookings' \ bookings : b.id = resp'[p].id}

\* request p completes with status st in this step
Completes(p, st) == pc[p] # "done" /\ pc'[p] = "done" /\ resp'[p].status = st

\* C1: a booking stored by POST /bookings carries total_amount = (the price
\* the Configuration Store held for its ticket type when the request read
\* it) * quantity, whatever total_amount the body carried, and no later step
\* (price updates included) changes the total_amount of a stored booking.
C1_TotalFromStorePrice ==
  [][/\ \A p \in Procs :
          (Completes(p, 201) /\ IsSome(seen[p]) /\ Val(seen[p]) \in Numerals) =>
             /\ Created(p) # {}
             /\ \A b \in Created(p) :
                   b.total_amount = IntLit(Val(seen[p])) * IntLit(req[p].quantity)
     /\ \A b \in bookings : \A b2 \in bookings' :
          b2.id = b.id => b2.total_amount = b.total_amount]_vars

\* C1 witness: a stored booking whose request carried a total_amount of its
\* own and whose ticket price has been changed since the request read it
C1_Witness ==
  \E p \in Procs : \E b \in bookings :
     /\ resp[p].status = 201 /\ b.id = resp[p].id
     /\ req[p].total_amount = "1"
     /\ IsSome(seen[p]) /\ Val(seen[p]) \in Numerals
     /\ Lookup(settings, PriceKey(b.ticket_type)) # seen[p]
     /\ b.total_amount = IntLit(Val(seen[p])) * IntLit(req[p].quantity)
     /\ b.total_amount > 1

\* C2: no two stored bookings share a booking_reference.
C2_UniqueReferences ==
  \A b1 \in bookings : \A b2 \in bookings :
     b1.booking_reference = b2.booking_reference => b1.id = b2.id

\* C2 witness: two bookings are stored, one of them after a collision, and
\* one has had its status changed
C2_Witness ==
  /\ Cardinality(bookings) = 2
  /\ \E p \in Procs : resp[p].status = 201 /\ attempt[p] >= 2
  /\ \E b \in bookings : b.payment_status # "paid"

\* C3: Booking.create makes at most 5 insert attempts; it retries only after
\* a collision on booking_reference and only while attempts remain; the row
\* is stored by the first attempt whose insert succeeds, the 5th included;
\* a collision on the 5th attempt ends the call with 'Failed to generate
\* booking reference' and no row stored.
C3_BoundedRetry ==
  [][\A p \in Procs :
       attempt'[p] # attempt[p] =>
         LET collided == \E b \in bookings : b.booking_reference = reference'[p]
             gone == Val(toInt(req[p].match_id)) \notin matches
         IN /\ attempt'[p] = attempt[p] + 1
            /\ attempt'[p] <= 5
            /\ pc'[p] = "insert" => (collided /\ attempt'[p] < 5 /\ bookings' = bookings)
            /\ (collided /\ attempt'[p] = 5) =>
                 /\ pc'[p] = "done" /\ resp'[p].status = 500
                 /\ resp'[p].error \in {"Failed to generate booking reference",
                                        "storage fault", "ER_NO_REFERENCED_ROW_2"}
                 /\ bookings' = bookings
            /\ resp'[p].error = "Failed to generate booking reference" =>
                 (collided /\ attempt'[p] = 5 /\ bookings' = bookings)
            /\ (~collided /\ ~gone) =>
                 \/ /\ resp'[p].status = 201
                    /\ \E b \in Created(p) : b.booking_reference = reference'[p]
                 \/ resp'[p].error = "storage fault" /\ bookings' = bookings]_vars

\* C3 witness: a booking stored on the 5th attempt
C3_Witness == \E p \in Procs : resp[p].status = 201 /\ attempt[p] = 5

\* the stored price text a request read is a number
Priced(p) == IsSome(seen[p]) /\ Val(seen[p]) \in Numerals

\* C4: when the unit price of the requested ticket type is absent from the
\* Configuration Store or is not a number, booking creation fails and stores
\* no booking: no request that read such a price ends with a stored booking.
C4_NoBookingWithoutPrice ==
  \A p \in Procs : resp[p].status = 201 => Priced(p)

\* the quantity text of a body is a number within [1, 50]
QuantityInRange(body) ==
  body.quantity \in Numerals /\ IntLit(body.quantity) >= 1 /\ IntLit(body.quantity) <= 50

\* C5: a request whose quantity is outside [1,50] or whose ticket_type is not
\* one of vip, regular, student is answered 400; an otherwise valid request
\* whose match_id is not in the match set when the handler looks it up is
\* answered 404, and 404 is answered for no other reason; a request answered
\* 400 or 404 leaves the stored bookings unchanged.
C5_Rejections ==
  [][\A p \in Procs :
       /\ (pc[p] = "idle" /\ pc'[p] # "idle"
             /\ (~QuantityInRange(req'[p])
                   \/ req'[p].ticket_type \notin {"vip", "regular", "student"})) =>
            Completes(p, 400)
       /\ (pc[p] = "matchLookup" /\ pc'[p] # "matchLookup"
             /\ IntLit(req[p].match_id) \notin matches) =>
            Completes(p, 404)
       /\ Completes(p, 404) =>
            (pc[p] = "matchLookup" /\ IntLit(req[p].match_id) \notin matches)
       /\ (Completes(p, 400) \/ Completes(p, 404)) => bookings' = bookings]_vars

\* C5 witness: a request for a match that has been deleted is answered 404
\* next to a request that was served
C5_Witness ==
  /\ resp[1].status = 404 /\ req[1].match_id = "1"
  /\ resp[2].status = 201

\* C6: a booking creation that succeeds adds exactly one row, in
\* payment_status 'paid', and changes no other row; a creation that ends in
\* an error adds no row; rows are added by nothing but a succeeding creation.
C6_OneRowOnSuccess ==
  [][/\ \A p \in Procs :
          /\ Completes(p, 201) =>
               /\ bookings \subseteq bookings'
               /\ Cardinality(bookings' \ bookings) = 1
               /\ \A b \in bookings' \ bookings :
                     b.id = resp'[p].id /\ b.payment_status = "paid"
          /\ (pc[p] # "done" /\ pc'[p] = "done" /\ resp'[p].status # 201) =>
               bookings' = bookings
     /\ bookings' \ bookings # {} => \E p \in Procs : Completes(p, 201)]_vars

\* C6 witness: one creation has stored its row, another has run out of
\* references and stored none
C6_Witness ==
  \E p \in Procs : \E q \in Procs :
     /\ resp[p].status = 201
     /\ resp[q].error = "Failed to generate booking reference"
     /\ Cardinality(bookings) = 1

\* call c of setMultiple takes a step
CfgStep(c) ==
  /\ cpc[c] \in {"connect", "begin", "upsert", "commit", "rollback"}
  /\ cpc'[c] # cpc[c] \/ cidx'[c] # cidx[c]

\* C7: Settings.setMultiple is all-or-nothing: the one step of a call that
\* changes the stored settings is its successful commit, which leaves every
\* key of the batch at its new value and no other key changed; a call in
\* which an upsert, the commit or anything before fails changes no stored
\* setting and ends in failure.
C7_AllOrNothing ==
  [][\A c \in CfgProcs :
       CfgStep(c) =>
         IF cpc[c] = "commit" /\ cpc'[c] = "done"
         THEN /\ cres'[c].message \in {"ok", "Ticket prices updated successfully"}
              /\ cidx[c] = 4
              /\ DOMAIN settings' = DOMAIN settings \cup TicketKeys
              /\ settings'["ticket_price_vip"] = cin[c].vip
              /\ settings'["ticket_price_regular"] = cin[c].regular
              /\ settings'["ticket_price_student"] = cin[c].student
              /\ \A k \in DOMAIN settings \ TicketKeys : settings'[k] = settings[k]
         ELSE /\ settings' = settings
              /\ cpc'[c] = "done" =>
                   cres'[c].message \in {"storage error", "Failed to update ticket prices"}]_vars

\* C7 witness: a call has failed after at least one of its upserts went
\* through, and the stored vip price is not the one it asked for
C7_Witness ==
  \E c \in CfgProcs :
     /\ cpc[c] = "done" /\ cidx[c] >= 2
     /\ cres[c].message \in {"storage error", "Failed to update ticket prices"}
     /\ Lookup(settings, "ticket_price_vip") # Some(cin[c].vip)

\* one of the three prices is not a number or is negative
BadPrice(prices) ==
  \E x \in {prices.vip, prices.regular, prices.student} :
     x \notin Numerals \/ IntLit(x) < 0

\* C8: a ticket-price update (Settings.setTicketPrices, or the admin handler
\* in front of it) given a negative or non-numeric price fails validation at
\* once and writes nothing: the stored settings are unchanged and no
\* transaction is opened.
C8_InvalidPricesRejected ==
  [][\A c \in CfgProcs :
       (cpc[c] = "idle" /\ cpc'[c] # "idle" /\ BadPrice(cin'[c])) =>
          /\ cpc'[c] = "done"
          /\ cres'[c].message \in
               {"Invalid ticket prices",
                "All ticket prices are required: vip, regular, student",
                "Ticket prices cannot be negative"}
          /\ settings' = settings
          /\ cwrites' = cwrites]_vars

\* C8 witness: setTicketPrices({vip: -1, regular: 10, student: 5}) has been
\* refused and the three prices are the seeded ones
C8_Witness ==
  \E c \in CfgProcs :
     /\ cpc[c] = "done"
     /\ cin[c] = [vip |-> "-1", regular |-> "10", student |-> "5"]
     /\ cres[c].message = "Invalid ticket prices"
     /\ settings = SeedSettings

\* C9: every stored booking's match_id is the id of a stored match.
C9_NoOrphanBookings ==
  \A b \in bookings : b.match_id \in matches

\* C9 witness: one creation lost its match between the existence check and
\* the insert and was refused, and the booking another creation had stored
\* went away with the match
C9_Witness ==
  \E p \in Procs : \E q \in Procs :
     /\ resp[p].error = "ER_NO_REFERENCED_ROW_2"
     /\ resp[q].status = 201
     /\ \A b \in bookings : b.id # resp[q].id

\* C10: updatePaymentStatus(id, status) succeeds exactly when status is one
\* of pending, paid, cancelled and id names a stored booking, and then that
\* booking, and no other, has payment_status = status; an unknown status for
\* a stored booking fails with 'Invalid payment status', an unknown id with
\* an accepted status fails with 'Booking not found', and a failing call
\* changes no booking.
C10_UpdatePaymentStatus ==
  [][(last'.op = "updatePaymentStatus" /\ UNCHANGED procVars) =>
       LET id == last'.id
           status == last'.status
           known == \E b \in bookings : String(b.id) = id
           accepted == status \in {"pending", "paid", "cancelled"}
       IN /\ (last'.error = "") <=> (accepted /\ known)
          /\ last'.error = "" =>
               bookings' = {IF String(b.id) = id
                            THEN [b EXCEPT !.payment_status = status]
                            ELSE b : b \in bookings}
          /\ last'.error # "" => bookings' = bookings
          /\ (known /\ ~accepted) => last'.error = "Invalid payment status"
          /\ (accepted /\ ~known) => last'.error = "Booking not found"]_vars

\* C10 witness: of two stored bookings one has been set to pending by a
\* successful call and the other is still paid
C10_Witness ==
  /\ last.op = "updatePaymentStatus" /\ last.error = "" /\ last.status = "pending"
  /\ \E b \in bookings : String(b.id) = last.id /\ b.payment_status = "pending"
  /\ \E b \in bookings : b.payment_status = "paid"

\* C11: DELETE /api/admin/matches/:id with the id of a stored match deletes
\* that match and every booking of it and reports success, and it answers
\* 'Match not found' only when no stored match has that id.
C11_DeleteMatch ==
  [][(last'.op = "deleteMatch" /\ UNCHANGED procVars) =>
       LET known == \E m \in matches : String(m) = last'.id
       IN /\ known =>
               /\ last'.error = ""
               /\ matches' = {m \in matches : String(m) # last'.id}
               /\ bookings' = {b \in bookings : String(b.match_id) # last'.id}
          /\ last'.error = "Match not found" => ~known]_vars

StatsAsClaimed(rows) ==
  LET s == getStats(rows)
  IN /\ s.total_bookings = Cardinality(rows)
     /\ s.total_tickets = SumQuantity(rows)
     /\ s.total_revenue = SumAmount(rows)
     /\ s.paid_revenue = SumAmount({b \in rows : b.payment_status = "paid"})
     /\ s.vip_tickets + s.regular_tickets + s.student_tickets = s.total_tickets
     /\ s.paid_revenue <= s.total_revenue

\* C13: getStats() returns the number of bookings, the sum of quantity, the
\* sum of total_amount, the sum of total_amount over the paid bookings and
\* per-type ticket counts adding up to total_tickets, so that paid_revenue <=
\* total_revenue; cancelling a paid booking lowers paid_revenue by its
\* total_amount and leaves total_revenue and the ticket counts unchanged.
C13_Stats ==
  [][/\ StatsAsClaimed(bookings)
     /\ StatsAsClaimed(bookings')
     /\ (last'.op = "cancel" /\ last'.error = "" /\ UNCHANGED procVars) =>
          \A b \in bookings :
             (String(b.id) = last'.id /\ b.payment_status = "paid") =>
                LET before == getStats(bookings)
                    after == getStats(bookings')
                IN /\ after.paid_revenue = before.paid_revenue - b.total_amount
                   /\ after.total_revenue = before.total_revenue
                   /\ after.total_tickets = before.total_tickets
                   /\ after.vip_tickets = before.vip_tickets
                   /\ after.regular_tickets = before.regular_tickets
                   /\ after.student_tickets = before.student_tickets]_vars

\* C13 witness: of two stored bookings of different ticket types one has
\* been cancelled, and paid_revenue is below total_revenue
C13_Witness ==
  /\ last.op = "cancel" /\ last.error = ""
  /\ \E b1 \in bookings : \E b2 \in bookings :
        /\ b1.payment_status = "cancelled" /\ b2.payment_status = "paid"
        /\ b1.ticket_type # b2.ticket_type
  /\ getStats(bookings).paid_revenue < getStats(bookings).total_revenue

\* the requests that stored a revenue entry under source s
Creators(s) ==
  {r \in RevProcs : rin[r].op \in {"add", "create"} /\ rin[r].source = s /\ rres[r].id # 0}

RECURSIVE SumEntered(_)
SumEntered(rs) ==
  IF rs = {} THEN 0
  ELSE LET r == CHOOSE x \in rs : TRUE IN AmountLit(rin[r].amount) + SumEntered(rs \ {r})

\* C14: getSummary() reports for each source the total of the amounts as
\* entered, rounded once on the aggregate (100.005 and 50.005 under tickets
\* give 150.01), and a grand total that is the sum of the per-source totals:
\* stated for the states in which the stored entries are the created ones.
C14_RoundedOnce ==
  (\A r \in RevProcs : rin[r].op \in {"", "add", "create"}) =>
     LET summary == getSummary(revenue)
     IN /\ \A s \in DOMAIN summary.breakdown :
             summary.breakdown[s].total_amount = RoundHundredths(SumEntered(Creators(s)))
        /\ summary.total_revenue =
             SumCents({[amount |-> summary.breakdown[s].total_amount, source |-> s] :
                        s \in DOMAIN summary.breakdown})

\* a request that Revenue create / update must refuse
BadRevenue(data) ==
  \/ data.source \notin {"tickets", "merchandise", "membership", "sponsorship", "other"}
  \/ data.amount \notin AmountTexts
  \/ AmountLit(data.amount) <= 0
  \/ data.transaction_date \in {"garbage"}

\* C15: Revenue create and update refuse a request whose source is not one
\* of the five sources, whose amount is not a positive number or whose
\* transaction_date is not a well-formed date, and then store and change
\* nothing; every stored entry has amount > 0, one of the five sources and a
\* YYYY-MM-DD transaction_date.
C15_RevenueValidated ==
  [][/\ \A r \in RevProcs :
          (rin[r].op = "" /\ rin'[r].op \in {"add", "create", "update"}
             /\ BadRevenue(rin'[r])) =>
            /\ revenue' = revenue
            /\ rres'[r].message \notin {"ok", "Revenue record added successfully"}
     /\ \A row \in revenue' :
          /\ row.amount > 0
          /\ row.source \in {"tickets", "merchandise", "membership", "sponsorship", "other"}
          /\ row.transaction_date \in {"2025-11-05", "2026-11-05"}]_vars

\* C16: a monthly or yearly revenue report accepts every year in [1970,3000]
\* (and, monthly, every month in [1,12]) and fails validation for every
\* other year or month.
C16_ReportRanges ==
  rep.op # "" =>
    LET yearOk == rep.year \in Numerals /\ IntLit(rep.year) >= 1970 /\ IntLit(rep.year) <= 3000
        monthOk == rep.month \in Numerals /\ IntLit(rep.month) >= 1 /\ IntLit(rep.month) <= 12
        refused == rep.message \in
                     {"Invalid year", "Invalid month",
                      "Year and month are required query parameters",
                      "Year must be between 2000 and 2100",
                      "Month must be between 1 and 12"}
    IN refused <=> ~(yearOk /\ (rep.op = "getYearlyRevenue" \/ monthOk))

\* C17: the dashboard is all-or-nothing: an answered request is a failure
\* without data exactly when one of its sub-calls has failed, and a success
\* carries the result of every one of the seven sub-calls.
C17_DashboardAtomic ==
  /\ dresp.status \in {0, 200, 500}
  /\ dresp.status = 200 => dresp.data = SubCalls /\ \A c \in SubCalls : dsub[c] = "ok"
  /\ dresp.status = 500 => dresp.data = {} /\ \E c \in SubCalls : dsub[c] = "failed"
  /\ dpc = "done" => dresp.status # 0
  /\ (dpc = "await" /\ \E c \in SubCalls : dsub[c] = "failed") => dresp.status = 0

\* a request answered with a failure although some of its reads succeeded
C17_Witness ==
  /\ dresp.status = 500
  /\ \E c \in SubCalls : dsub[c] = "ok"
  /\ \E c \in SubCalls : dsub[c] = "pending"

\* the capitalizations of one address
Capitalizations == {{"a@x.io", "A@x.io", "a@X.IO"}, {"b@x.io", "B@x.io"}}

\* two texts are the same address up to capitalization
SameAddress(a, b) == a = b \/ \E k \in Capitalizations : a \in k /\ b \in k

\* C18: GET /bookings without an email is answered 400 with no bookings;
\* with an email a successful answer holds exactly the stored bookings of
\* that email, and no answer ever holds a booking of another email.
C18_OnlyOwnBookings ==
  [][(lk' # lk /\ lk'.op = "GET /bookings") =>
       LET own == {b \in bookings : SameAddress(b.customer_email, lk'.email)}
       IN /\ bookings' = bookings
          /\ lk'.email = "" => lk'.status = 400 /\ lk'.data = {}
          /\ lk'.data \subseteq own
          /\ lk'.status = 200 => lk'.data = own
          /\ lk'.status \in {200, 400, 500}
          /\ (lk'.status = 400 /\ lk'.email # "") => own = {}]_vars

\* C18 witness: a lookup answered with one booking while the table holds a
\* booking of another customer too
C18_Witness ==
  /\ lk.op = "GET /bookings"
  /\ lk.status = 200
  /\ lk.data # {}
  /\ \E b \in bookings : ~SameAddress(b.customer_email, lk.email)

\* the stored booking that the finished request p created
BookingOf(p) ==
  IF pc[p] = "done" /\ resp[p].status = 201
  THEN {b \in bookings : b.id = resp[p].id}
  ELSE {}

\* C19: emails are lower-cased before storage and before lookup: every
\* stored email is lower-case, and a lookup that succeeds under one
\* capitalization of an address returns every booking created under any
\* capitalization of the same address.
C19_CaseInsensitive ==
  [][/\ \A b \in bookings' : b.customer_email \in {"a@x.io", "b@x.io"}
     /\ (lk' # lk /\ lk'.email # "" /\ (lk'.status = 200 \/ lk'.message = "ok")) =>
          \A p \in Procs :
             SameAddress(req[p].customer_email, lk'.email) =>
               BookingOf(p) \subseteq lk'.data]_vars

\* C19 witness: a booking created as A@x.io, returned by a lookup of a@X.IO
C19_Witness ==
  \E p \in Procs :
     /\ req[p].customer_email = "A@x.io"
     /\ lk.email = "a@X.IO"
     /\ BookingOf(p) # {}
     /\ BookingOf(p) \subseteq lk.data

\* an admin handler is entered in this step
Entered ==
  \/ \E c \in CfgProcs : cpc[c] = "idle" /\ cpc'[c] # "idle"
  \/ \E r \in RevProcs : rin[r].op = "" /\ rin'[r].op # ""
  \/ dpc = "idle" /\ dpc' # "idle"
  \/ rep' # rep
  \/ last' # last

\* headers that carry no token, a malformed, an invalid or an expired one
BadTokenHeaders ==
  {<<>>, <<"Bearer">>, <<"Basic", "admin">>, <<"Bearer", "">>, <<"Bearer", "garbage">>,
   <<"Bearer", "expired">>, <<"Bearer", "noid">>}

\* headers whose token verifies to an identity that is not an admin
NonAdminHeaders == {<<"Bearer", "user">>}

\* headers whose token verifies to an admin identity
AdminHeaders == Headers \ (BadTokenHeaders \cup NonAdminHeaders)

\* what no rejected request may touch
Stored == <<matches, bookings, settings, nextId, revenue, revNextId>>

\* a request is taken through the middlewares in this step
Screened == areq' # areq /\ areq'.op = "request"

\* C20 as stated: no admin handler is entered unless a verified admin
\* identity is attached; a missing, malformed, invalid or expired token is
\* answered 401 and a non-admin identity 403, the stored state unchanged.
C20_AdminGate ==
  [][/\ Entered => (areq.next /\ areq.header \in AdminHeaders /\ areq.user.id # None)
     /\ Screened =>
          /\ UNCHANGED Stored /\ ~Entered
          /\ areq'.header \in BadTokenHeaders => (areq'.status = 401 /\ ~areq'.next)
          /\ areq'.header \in NonAdminHeaders => (areq'.status = 403 /\ ~areq'.next)]_vars

\* C20 amended: the same, the 401 / 403 answers holding when JWT_SECRET is
\* configured; without JWT_SECRET every admin request is answered 500
\* 'Server configuration error.' and no handler is entered either.
C20_AdminGateConfigured ==
  [][/\ Entered =>
          (areq.next /\ areq.secret /\ areq.header \in AdminHeaders /\ areq.user.id # None)
     /\ Screened =>
          /\ UNCHANGED Stored /\ ~Entered
          /\ areq'.next <=> areq'.status = 0
          /\ areq'.secret =>
               /\ areq'.header \in BadTokenHeaders => areq'.status = 401
               /\ areq'.header \in NonAdminHeaders => areq'.status = 403
               /\ areq'.header \in AdminHeaders => areq'.status = 0
          /\ ~areq'.secret =>
               (areq'.status = 500 /\ areq'.message = "Server configuration error.")]_vars

\* C20 witness: after an admitted request added a revenue entry, a request
\* with an admin token is refused by a server without JWT_SECRET, and the
\* entry is still there
C20_Witness ==
  /\ areq.op = "request"
  /\ ~areq.secret
  /\ areq.header = <<"Bearer", "admin">>
  /\ areq.status = 500
  /\ revenue # {}

\* the insert of request p fails in this step for a reason other than a
\* booking_reference already in use
OtherInsertFailure(p) ==
  /\ pc[p] = "insert"
  /\ attempt'[p] # attempt[p]
  /\ bookings' = bookings
  /\ reference'[p] \notin {b.booking_reference : b \in bookings}

\* C21: an insert failure that is not a collision of booking_reference ends
\* the creation with that error after this attempt: no booking is stored,
\* the request is answered 500, and no later step makes another attempt.
C21_NoRetryOnOtherFailure ==
  [][\A p \in Procs :
       /\ OtherInsertFailure(p) =>
            /\ pc'[p] = "done"
            /\ resp'[p].status = 500
            /\ resp'[p].error \in {"ER_NO_REFERENCED_ROW_2", "storage fault"}
       /\ pc[p] = "done" =>
            (attempt'[p] = attempt[p] /\ resp'[p] = resp[p] /\ pc'[p] = "done")]_vars

\* C21 witness: a creation ended by the foreign key after one attempt, its
\* match deleted in between, no booking stored
C21_Witness ==
  \E p \in Procs :
     /\ resp[p].error = "ER_NO_REFERENCED_ROW_2"
     /\ attempt[p] = 1
     /\ Val(toInt(req[p].match_id)) \notin matches
     /\ bookings = {}

\* a field of the body is absent (or, for the two numbers, not a number)
FieldMissing(body) ==
  \/ body.match_id \notin Numerals
  \/ body.quantity \notin Numerals
  \/ \E f \in {"customer_name", "customer_email", "customer_phone", "ticket_type"} :
        body[f] = ""

\* the ticket type of the body is none of the three
TypeUnknown(body) == body.ticket_type \notin {"vip", "regular", "student"}

\* the quantity of the body is a number outside [1, 50]
QuantityOutside(body) ==
  body.quantity \in Numerals /\ (IntLit(body.quantity) < 1 \/ IntLit(body.quantity) > 50)

\* the email of the body is one the handler takes for an address
WellFormedEmail(body) == body.customer_email \in {"a@x.io", "A@x.io", "a@X.IO", "b@x.io", "B@x.io"}

\* C22: POST /bookings checks fields present, then ticket_type, then
\* quantity, then the match, and answers with the error of the first check
\* the request fails: 400 for the first three, 404 'Match not found' only
\* for a request that passes all three.
C22_FirstFailureWins ==
  [][\A p \in Procs :
       /\ (pc[p] = "idle" /\ pc'[p] # "idle") =>
            LET body == req'[p]
                answer == IF pc'[p] = "done" THEN resp'[p].message ELSE ""
            IN /\ pc'[p] = "done" => resp'[p].status = 400
               /\ FieldMissing(body) => answer = "All fields are required"
               /\ (~FieldMissing(body) /\ ~WellFormedEmail(body)) =>
                    answer = "Invalid customer_email"
               /\ (~FieldMissing(body) /\ WellFormedEmail(body) /\ TypeUnknown(body)) =>
                    answer = "Invalid ticket_type"
               /\ (~FieldMissing(body) /\ WellFormedEmail(body) /\ ~TypeUnknown(body)
                     /\ QuantityOutside(body)) =>
                    answer = "Quantity must be between 1 and 50"
               /\ (~FieldMissing(body) /\ WellFormedEmail(body) /\ ~TypeUnknown(body)
                     /\ ~QuantityOutside(body)) => pc'[p] = "matchLookup"
       /\ pc[p] = "matchLookup" /\ pc'[p] # pc[p] =>
            /\ IntLit(req[p].match_id) \notin matches =>
                 (pc'[p] = "done" /\ resp'[p].status = 404
                    /\ resp'[p].message = "Match not found")
            /\ IntLit(req[p].match_id) \in matches => pc'[p] # "done"
       /\ (pc[p] # "done" /\ pc'[p] = "done" /\ resp'[p].status = 404) =>
            ~(FieldMissing(req[p]) \/ TypeUnknown(req[p]) \/ QuantityOutside(req[p]))]_vars

\* C22 witness: a request with an unknown ticket type, a quantity out of
\* range and a match that does not exist, answered 400 for the ticket type
C22_Witness ==
  \E p \in Procs :
     /\ req[p].ticket_type = "gold"
     /\ req[p].quantity = "51"
     /\ req[p].match_id \in Numerals /\ IntLit(req[p].match_id) \notin matches
     /\ resp[p].status = 400
     /\ resp[p].message = "Invalid ticket_type"

\* a Booking.updatePaymentStatus or Booking.cancel call is made in this step
StatusCall == last' # last /\ last'.op \in {"updatePaymentStatus", "cancel"}

\* C23: updatePaymentStatus and cancel change nothing but the payment_status
\* of the booking they name: every other column of it and every other
\* booking stay as created; and a change of the ticket prices changes no
\* stored booking.
C23_OnlyStatusChanges ==
  [][/\ \A b \in bookings : \A b2 \in bookings' :
          b2.id = b.id => [b2 EXCEPT !.payment_status = b.payment_status] = b
     /\ StatusCall =>
          /\ {b.id : b \in bookings'} = {b.id : b \in bookings}
          /\ Cardinality(bookings') = Cardinality(bookings)
          /\ \A b \in bookings : (last'.id \notin Numerals \/ b.id # IntLit(last'.id)) => b \in bookings'
          /\ last'.error # "" => bookings' = bookings
     /\ settings' # settings => bookings' = bookings]_vars

\* C23 witness: the prices were replaced after two bookings were created,
\* one was cancelled since, the other is still paid at its old total
C23_Witness ==
  /\ settings # SeedSettings
  /\ last.op = "cancel" /\ last.error = ""
  /\ \E b \in bookings : b.payment_status = "cancelled"
  /\ \E b \in bookings :
        /\ b.payment_status = "paid"
        /\ b.total_amount # IntLit(settings[PriceKey("vip")]) * b.quantity

\* C24: every stored booking has a quantity within [1, 50], one of the three
\* ticket types and one of the three payment statuses.
C24_RowsWellFormed ==
  \A b \in bookings :
     /\ b.quantity >= 1 /\ b.quantity <= 50
     /\ b.ticket_type \in {"vip", "regular", "student"}
     /\ b.payment_status \in {"pending", "paid", "cancelled"}

\* C24 witness: a booking of 50 tickets set to pending, after which the
\* status 'refunded' was refused
C24_Witness ==
  /\ last.op = "updatePaymentStatus"
  /\ last.status = "refunded"
  /\ last.error = "Invalid payment status"
  /\ \E b \in bookings : b.quantity = 50 /\ b.payment_status = "pending"

\* the three rows a price triple is stored as
StoreOf(prices) ==
  [k \in {"ticket_price_vip", "ticket_price_regular", "ticket_price_student"} |->
     CASE k = "ticket_price_vip" -> prices.vip
       [] k = "ticket_price_regular" -> prices.regular
       [] k = "ticket_price_student" -> prices.student]

\* the price rows a SELECT over the three keys returns in store
Visible(store) ==
  [k \in {"ticket_price_vip", "ticket_price_regular", "ticket_price_student"} \cap DOMAIN store
     |-> store[k]]

\* the seeded triple and the triples submitted so far
WholeTriples ==
  {StoreOf([vip |-> "20", regular |-> "10", student |-> "5"])}
    \cup {StoreOf(cin[c]) : c \in {d \in CfgProcs : cin[d].vip # ""}}

\* C25: a price read made while setTicketPrices batches are under way sees
\* the three prices of one whole triple (the one before the batch or a
\* committed one), never part of a batch; the booking being created is
\* priced from that triple.
C25_NoPartialBatchSeen ==
  [][/\ Visible(settings') \in WholeTriples'
     /\ \A p \in Procs :
          (pc[p] = "readPrices" /\ pc'[p] # pc[p]) =>
             /\ Visible(settings) \in WholeTriples
             /\ \E t \in WholeTriples :
                  /\ seen'[p] = <<t["ticket_price_" \o req[p].ticket_type]>>
                  /\ Visible(settings) = t]_vars

\* C25 witness: a booking priced at the vip price of the committed first
\* batch while the second batch has written one and two of its three rows
C25_Witness ==
  /\ cpc[2] = "upsert" /\ cidx[2] = 3
  /\ cpc[1] = "done" /\ cres[1].message = "ok"
  /\ pc[1] = "matchExists"
  /\ req[1].ticket_type = "vip"
  /\ seen[1] = <<"50">>

\* the date filter of a summary request is malformed: a date that is none,
\* or one of the two dates without the other
MalformedRange(start_date, end_date) ==
  \/ start_date \notin {"", "2025-11-05", "2026-11-05"}
  \/ end_date \notin {"", "2025-11-05", "2026-11-05"}
  \/ (start_date = "") # (end_date = "")

\* C26: a request that fails validation is answered 400, never 5xx: a
\* revenue entry with a bad source or amount, and a revenue summary whose
\* date filter is malformed, one date without the other included.
C26_ValidationIs400 ==
  /\ \A r \in RevProcs :
       (rin[r].op = "add" /\ (rin[r].source = "bad" \/ rin[r].amount = "abc")) =>
          rres[r].status = 400
  /\ (rep.op = "GET summary" /\ MalformedRange(rep.start_date, rep.end_date)) =>
       rep.status = 400

\* C27: getRevenueByMatch() counts paid bookings only: the ticket counts and
\* the total amount of a match are the sums over its paid bookings, pending
\* and cancelled ones adding nothing.
C27_OnlyPaidCounted ==
  \A r \in getRevenueByMatch(matches, bookings) :
     LET paid == {b \in bookings : b.match_id = r.id /\ b.payment_status = "paid"}
     IN /\ r.total_tickets = SumQuantity(paid)
        /\ r.total_revenue = SumAmount(paid)
        /\ r.vip_tickets = SumQuantity({b \in paid : b.ticket_type = "vip"})
        /\ r.regular_tickets = SumQuantity({b \in paid : b.ticket_type = "regular"})
        /\ r.student_tickets = SumQuantity({b \in paid : b.ticket_type = "student"})

\* C28: when a creation draws a reference that a stored booking already
\* carries, its insert stores nothing and it draws again (up to the 5th
\* attempt); an insert under a free reference stores the booking unless the
\* storage refuses it for another reason; so two creations that drew the
\* same reference both end stored, under different references.
C28_CollisionRetried ==
  [][/\ \A p \in Procs :
          attempt'[p] # attempt[p] =>
            LET collided == reference'[p] \in {b.booking_reference : b \in bookings}
                failed == pc'[p] = "done" /\ resp'[p].status = 500
                            /\ resp'[p].error \in {"storage fault", "ER_NO_REFERENCED_ROW_2"}
                stored == /\ pc'[p] = "done" /\ resp'[p].status = 201
                          /\ \E b \in bookings' \ bookings :
                                /\ b.booking_reference = reference'[p]
                                /\ b.id = resp'[p].id
                                /\ bookings' = bookings \cup {b}
            IN /\ collided => bookings' = bookings
               /\ (collided /\ attempt'[p] < 5) => (pc'[p] = "insert" \/ failed)
               /\ ~collided => (stored \/ (failed /\ bookings' = bookings))
     /\ \A b1 \in bookings' : \A b2 \in bookings' :
          b1.booking_reference = b2.booking_reference => b1 = b2]_vars

\* C28 witness: two creations both stored, the second on its second attempt
\* after drawing the reference of the first
C28_Witness ==
  \E p \in Procs : \E q \in Procs :
     /\ resp[p].status = 201 /\ attempt[p] = 1
     /\ resp[q].status = 201 /\ attempt[q] = 2
     /\ \E b1 \in bookings : \E b2 \in bookings :
          /\ b1.id = resp[p].id /\ b2.id = resp[q].id
          /\ b1.booking_reference # b2.booking_reference

\* C29: when the two setTicketPrices calls, submitted with different
\* triples, have both succeeded, the three stored prices are the triple of
\* one of them in full, never values of both.
C29_NoMixedTriple ==
  (/\ cpc[1] = "done" /\ cres[1].message = "ok"
   /\ cpc[2] = "done" /\ cres[2].message = "ok")
    => Visible(settings) \in {StoreOf(cin[1]), StoreOf(cin[2])}

\* C29 witness: both calls succeeded and the prices of the second are stored
C29_Witness ==
  /\ cpc[1] = "done" /\ cres[1].message = "ok"
  /\ cpc[2] = "done" /\ cres[2].message = "ok"
  /\ cin[1] = [vip |-> "50", regular |-> "20", student |-> "10"]
  /\ cin[2] = [vip |-> "10", regular |-> "5", student |-> "1"]
  /\ Visible(settings) = StoreOf(cin[2])

\* C30: a setMultiple call holds one connection from getConnection until it
\* completes and none afterwards: the step that completes it, after a
\* commit or after a rollback, gives the connection back once, no other
\* step does, and the calls that have completed hold no connection.
C30_ReleasedOnce ==
  [][\A c \in CfgProcs :
       /\ cconn'[c] \in {0, 1}
       /\ cpc'[c] = "done" => cconn'[c] = 0
       /\ cpc'[c] \in {"begin", "upsert", "commit", "rollback"} => cconn'[c] = 1
       /\ (cpc[c] \in {"commit", "rollback"} /\ cpc'[c] = "done") =>
             cconn'[c] = cconn[c] - 1
       /\ cconn'[c] < cconn[c] => (cpc[c] \in {"commit", "rollback"} /\ cpc'[c] = "done")
       /\ cconn'[c] > cconn[c] => (cpc[c] = "connect" /\ cpc'[c] = "begin")]_vars

\* C30 witness: one call completed by its commit and one by its rollback,
\* and neither holds a connection
C30_Witness ==
  \E c \in CfgProcs : \E d \in CfgProcs :
     /\ cpc[c] = "done" /\ cres[c].message = "ok"
     /\ cpc[d] = "done" /\ cres[d].message = "storage error" /\ cidx[d] >= 1
     /\ settings # SeedSettings
     /\ cconn[c] = 0 /\ cconn[d] = 0

====
